---- MODULE Spec2Model ----
(***************************************************************************)
(* Model of the db_orchestrator execution engine (src/src/executor.py):    *)
(* Executor.run, Executor._run_steps and the step handlers, together with  *)
(* the session provider (src/src/database.py) and the manifest store       *)
(* (src/src/yaml_manager.py) as far as the engine uses them.               *)
(*                                                                         *)
(* A run is a call stack of _run_steps frames (one per nested manifest).   *)
(* Every collaborator call that can raise is a nondeterministic choice     *)
(* between returning and raising.                                          *)
(*                                                                         *)
(* Five components are also specified on their own, each with its own      *)
(* initial states and next-state relation, the engine being off:           *)
(*   SpecYaml      YamlManager.disable_step on a manifest file             *)
(*   SpecSql       Executor._execute_sql_step in detail                    *)
(*   SpecReporter  Reporter.add_task_result                                *)
(*   SpecExplain   PostgresExplainProfiler.post_execution_capture          *)
(*   SpecStep      one pass of the loop body of Executor._run_steps        *)
(***************************************************************************)
EXTENDS Integers, Sequences, FiniteSets, TLC

VARIABLES
    cfg,            \* Executor fields set by __init__: dry_run, force, enable_all
    rpc,            \* position of Executor.run
    stack,          \* call stack of _run_steps frames, innermost last
    sessions,       \* every session handed out by db_manager.get_session, by id
    exc,            \* the exception in flight: << >> or <<[failed_step, origin]>>
    alerts,         \* calls of notifier.send_alert, in order
    executed_steps, \* the local executed_steps of Executor.run (lines 142, 148)
    built,          \* history: the list the root _run_steps had built when it ended
    done,           \* names of the steps disabled in their manifest (disable_step)
    marks,          \* the disable_step calls that returned, in order, each with
                    \* the YamlManager it was made on
    scripts,        \* names of the python steps whose script was started
    exits,          \* the scripts that ended, in order, each with its exit code
    loaded,         \* number of steps loaded from manifests so far
    execution_queue,\* the local execution_queue of Executor.run (lines 76-79)
    db,             \* the DatabaseManager of run: "none", "created", "closed"
    tries,          \* execute_query calls made by the running _execute_sql_step
    waits,          \* time.sleep calls made by the running _execute_sql_step
    files,          \* the manifest files on disk: "fresh" when no step carries
                    \* enabled: false, "used" when steps may carry it
    all_steps,      \* the local all_steps of Executor.run (line 73)
    plan_items,     \* the local plan_items of Executor.run (lines 93-107), printed
    answer,         \* the local response of _get_user_confirmation (line 445)
    yaml_file,      \* YamlManager: the steps of the manifest file on disk
    yaml_call,      \* YamlManager: the last disable_step call, with the file before
    sql_step,       \* one call of _execute_sql_step: its locals and what it did
    step_run,       \* one pass of the loop body of _run_steps: the step, the
                    \* locals and the calls made, in order
    tasks_data,     \* Reporter.tasks_data
    metrics,        \* Reporter: the metrics argument of the last add_task_result
    rows,           \* PostgresExplainProfiler: what execution_result.fetchall() gives:
                    \* no row, or one row with the plan document
    profiler        \* PostgresExplainProfiler: raw_plan_json (<< >> for None), metrics

\* what the engine reads but never writes after the plan is loaded
plan == <<files, all_steps, plan_items>>

\* the state of the engine (Executor)
engine == <<cfg, rpc, stack, sessions, exc, alerts, executed_steps, built, done,
            marks, scripts, exits, loaded, execution_queue, db, tries, waits, plan, answer>>

\* the state of the components that are modelled on their own
yaml == <<yaml_file, yaml_call>>
reporter == <<tasks_data, metrics>>
explain == <<rows, profiler>>
lib == <<yaml, sql_step, step_run, reporter, explain>>

vars == <<engine, lib>>

----------------------------------------------------------------------------
(* Bounds of the model *)

\* steps loaded over the whole run, nested manifests included
MaxTotal == 2
\* nesting depth of manifest steps below the root manifest
MaxDepth == 2

----------------------------------------------------------------------------
(* Program constants and data *)

\* transaction_group: null
NoGroup == 0
\* the transaction_group values of the manifests
Groups == {NoGroup, 1, 2}
\* step types; "other" stands for any type the dispatch does not know
StepTypes == {"sql", "python", "manifest", "other"}
\* retries = 3 in _execute_sql_step
retries == 3

\* current_session = None
NoSession == 0
\* self.yaml_manager, the YamlManager of the root manifest; the YamlManager of
\* a child manifest is known by the name of the manifest step that loads it
RootManifest == 0
\* the error carries no failed_step attribute
NoName == 0

\* Steps are named by their position: step j of the root manifest is j, step j
\* of the manifest run by step p is 10 * p + j.
StepName(parent, j) == 10 * parent + j

\* The manifests of n steps a file can hold, below the manifest step `parent`
\* (0 for the root); a manifest at the deepest level holds no manifest step.
\* A step's enabled field is "true", "false", or "absent" (no such key).
Manifests(parent, depth, n) ==
    LET types == IF depth < MaxDepth THEN StepTypes ELSE StepTypes \ {"manifest"}
        flags == IF files = "used" THEN {"true", "false", "absent"} ELSE {"true"}
        shape == [1..n -> [type : types, group : Groups, enabled : flags]]
    IN  { [j \in 1..n |-> [name    |-> StepName(parent, j),
                           type    |-> s[j].type,
                           group   |-> s[j].group,
                           enabled |-> s[j].enabled]] : s \in shape }

\* mutant: s.get('enabled') without the default
NoDefault(s) == s.enabled = "true"

\* s.get('enabled', True) as a truth value (lines 79 and 318): a missing key
\* gives the default True, false and null are false
s_get_enabled(s) == s.enabled \notin {"false", "null"}

\* mutant: the enabled flag is ignored
FilterNothing(steps, enable_all) == steps

\* execution_queue of run (lines 76-79) and child_queue (lines 315-318)
FilterEnabled(steps, enable_all) ==
    IF enable_all THEN steps
    ELSE SelectSeq(steps, LAMBDA s : s_get_enabled(s))

\* the name of the manifest step that called this frame, 0 for the root frame
ParentName(stk) ==
    IF Len(stk) <= 1 THEN 0 ELSE stk[Len(stk) - 1].queue[stk[Len(stk) - 1].i].name

----------------------------------------------------------------------------
(* Sessions (database.py get_session; SQLAlchemy commit, rollback, close) *)

\* db_manager.get_session(): a new session with an active transaction
OpenSession(ss) ==
    Append(ss, [tx |-> "active", open |-> TRUE, eff |-> {}])

\* a statement of step `name` executed in session sid
AddEffect(ss, sid, name) ==
    [ss EXCEPT ![sid].eff = @ \cup {name}]

\* session.commit()
Commit(ss, sid) == [ss EXCEPT ![sid].tx = "committed"]

\* session.rollback()
Rollback(ss, sid) == [ss EXCEPT ![sid].tx = "rolledback"]

\* session.close()
Close(ss, sid) == [ss EXCEPT ![sid].open = FALSE]

\* the sessions that are open (handed out and not closed)
OpenIn(ss) == {sid \in 1..Len(ss) : ss[sid].open}
OpenSessions == OpenIn(sessions)

\* the step effects that are committed in the database
CommittedIn(ss) ==
    UNION {ss[sid].eff : sid \in {s \in 1..Len(ss) : ss[s].tx = "committed"}}
Committed == CommittedIn(sessions)

----------------------------------------------------------------------------
(* Frames of _run_steps *)

Top == stack[Len(stack)]
Depth == Len(stack) - 1
SetTop(f) == [stack EXCEPT ![Len(stack)] = f]
CurStep(f) == f.queue[f.i]

\* arguments and locals of a fresh _run_steps call (lines 188, 201-203)
NewFrame(queue, yaml_manager, notify) ==
    [queue |-> queue, i |-> 1, pc |-> "loop", session |-> NoSession,
     group |-> NoGroup, executed |-> << >>, yaml_manager |-> yaml_manager,
     notify |-> notify]

Running == rpc = "steps" /\ stack # << >>

\* mutant: the session is committed and left open
CommitNoClose(ss, sid) == Commit(ss, sid)

\* lines 216-217, 248-249, 257-258, 300-301: commit, then close
CommitAndClose(ss, sid) == Close(Commit(ss, sid), sid)

\* mutant: the failing session is committed instead of rolled back
CommitOnFailure(ss, sid) == Close(Commit(ss, sid), sid)

\* lines 284-285: rollback, then close
RollbackAndClose(ss, sid) == Close(Rollback(ss, sid), sid)

----------------------------------------------------------------------------
(* Exceptions *)

NewError(origin) == [failed_step |-> NoName, origin |-> origin]

\* mutant: every except clause overwrites failed_step
AttachAlways(e, name) == [e EXCEPT !.failed_step = name]

\* lines 294-295: attach the step name unless the error already carries one
AttachFailedStep(e, name) ==
    IF e.failed_step = NoName THEN [e EXCEPT !.failed_step = name] ELSE e

\* mutant: the manifest step swallows the error of its nested plan and goes on
PropagateSwallowed(f) ==
    IF Len(stack) = 1
    THEN /\ stack' = << >>
         /\ rpc' = "except"
         /\ built' = f.executed
    ELSE /\ stack' = [SubSeq(stack, 1, Len(stack) - 1)
                        EXCEPT ![Len(stack) - 1].pc = "post"]
         /\ UNCHANGED <<rpc, built>>

\* An error leaves the innermost _run_steps call: it reaches the except clause
\* of the calling frame (the call of line 262 is inside the try of line 231),
\* or the except clause of run (line 168) when the root call raised.
Propagate(f) ==
    IF Len(stack) = 1
    THEN /\ stack' = << >>
         /\ rpc' = "except"
         /\ built' = f.executed
    ELSE /\ stack' = [SubSeq(stack, 1, Len(stack) - 1)
                        EXCEPT ![Len(stack) - 1].pc = "except"]
         /\ UNCHANGED <<rpc, built>>

\* raise inside the try block of the current step (lines 231-279)
RaiseInTry(f) ==
    /\ stack' = SetTop([f EXCEPT !.pc = "except"])
    /\ exc' = <<NewError(CurStep(f).name)>>
    /\ UNCHANGED <<rpc, built>>

\* raise outside the try block (lines 212-229 and 298-301): the error leaves
\* this _run_steps call without passing its except clause
RaiseOutside(f) ==
    /\ exc' = <<NewError(ParentName(stack))>>
    /\ Propagate(f)

----------------------------------------------------------------------------
(* Notifications *)

Alert(subject, step, summary) ==
    [subject |-> subject, step |-> step, summary |-> summary]

\* _format_steps_summary (lines 419-440): one line per task, a task being a run
\* of consecutive records of one non-null group or a single ungrouped record
RECURSIVE GroupRun(_, _, _)
GroupRun(executed, i, group) ==
    IF i <= Len(executed) /\ executed[i].group = group
    THEN 1 + GroupRun(executed, i + 1, group)
    ELSE 0

RECURSIVE FormatFrom(_, _)
FormatFrom(executed, i) ==
    IF i > Len(executed) THEN << >>
    ELSE IF executed[i].group # NoGroup
         THEN LET n == GroupRun(executed, i, executed[i].group)
              IN  <<[kind |-> "group", id |-> executed[i].group, n |-> n]>>
                    \o FormatFrom(executed, i + n)
         ELSE <<[kind |-> "step", id |-> executed[i].name, n |-> 1]>>
                \o FormatFrom(executed, i + 1)

_format_steps_summary(executed) == FormatFrom(executed, 1)

----------------------------------------------------------------------------
(* Executor.run *)

RunUnchanged == UNCHANGED <<stack, sessions, done, marks, scripts, exits, tries, waits, built, lib>>

\* lines 93-107: consecutive steps of one transaction_group collapse into one
\* plan item, a step without a group is an item of its own
BuildPlan(queue) == FormatFrom(queue, 1)

\* mutant: the dry_run flag is ignored
AfterPlanNoDryRun(dry_run, force) == IF force THEN "start" ELSE "confirm"

\* lines 126-136: where run goes once the plan is printed
AfterPlan(dry_run, force) ==
    IF dry_run THEN "returned"
    ELSE IF force THEN "start" ELSE "confirm"

\* lines 70-128: load the manifest, filter, print the plan, dry run
Load ==
    /\ rpc = "load"
    /\ RunUnchanged
    /\ UNCHANGED <<cfg, executed_steps, db, exc, files, answer>>
    /\ \/ \* load_manifest raises (lines 87-90)
          /\ alerts' = Append(alerts, Alert("Orchestrator Failure", NoName, << >>))
          /\ rpc' = "exit1"
          /\ UNCHANGED <<loaded, execution_queue, all_steps, plan_items>>
       \/ \E n \in 0..MaxTotal : \E steps \in Manifests(0, 0, n) :
            LET queue == FilterEnabled(steps, cfg.enable_all) IN
            /\ loaded' = n
            /\ all_steps' = steps
            /\ execution_queue' = queue
            /\ IF queue = << >>
               THEN \* lines 83-85
                    /\ rpc' = "returned"
                    /\ UNCHANGED plan_items
               ELSE /\ plan_items' = BuildPlan(queue)
                    /\ rpc' = AfterPlan(cfg.dry_run, cfg.force)
            /\ UNCHANGED alerts

\* what the operator may type at the prompt
Responses == {"y", " YES", "n", "No ", "", "maybe"}

\* input(...).lower().strip() (line 445)
LowerStrip(raw) ==
    CASE raw = " YES" -> "yes"
      [] raw = "No "  -> "no"
      [] OTHER        -> raw

\* line 445: the prompt is shown and a line is read
Confirm ==
    /\ rpc = "confirm"
    /\ RunUnchanged
    /\ UNCHANGED <<cfg, executed_steps, db, exc, alerts, loaded, execution_queue, plan>>
    /\ \E raw \in Responses : answer' = LowerStrip(raw)
    /\ rpc' = "answered"

\* mutant: every answer but a refusal is taken as consent
YesUnlessNo(response) ==
    IF response \in {"n", "no", ""} THEN "no" ELSE "yes"

\* mutant: an empty answer is taken as consent
DefaultYes(response) ==
    IF response \in {"y", "yes", ""} THEN "yes"
    ELSE IF response \in {"n", "no"} THEN "no"
    ELSE "again"

\* lines 446-449: True, False, or another turn of the loop
_get_user_confirmation(response) ==
    IF response \in {"y", "yes"} THEN "yes"
    ELSE IF response \in {"n", "no", ""} THEN "no"
    ELSE "again"

\* lines 446-449 and 131-134: the answer decides; the local response is gone
\* once _get_user_confirmation has returned True
Decide ==
    /\ rpc = "answered"
    /\ RunUnchanged
    /\ UNCHANGED <<cfg, executed_steps, db, exc, alerts, loaded, execution_queue, plan>>
    /\ LET verdict == _get_user_confirmation(answer) IN
       /\ rpc' = IF verdict = "yes" THEN "start"
                 ELSE IF verdict = "no" THEN "exit0" ELSE "confirm"
       /\ answer' = IF verdict = "yes" THEN "none" ELSE answer

\* lines 139-150: Job Started, create the DatabaseManager, call _run_steps
Start ==
    /\ rpc = "start"
    /\ alerts' = Append(alerts, Alert("Job Started", NoName, << >>))
    /\ UNCHANGED <<cfg, executed_steps, sessions, done, marks, scripts, exits, tries, waits,
                   built, loaded, execution_queue, plan, answer, lib>>
    /\ \/ /\ db' = "created"
          /\ stack' = <<NewFrame(execution_queue, RootManifest, TRUE)>>
          /\ rpc' = "steps"
          /\ UNCHANGED exc
       \/ \* DatabaseManager(self.db_url) raises
          /\ rpc' = "except"
          /\ exc' = <<NewError(NoName)>>
          /\ UNCHANGED <<db, stack>>

\* mutant: the finally clause is missing
LeaveOpen(d) == d

\* lines 184-186: the finally clause closes the DatabaseManager if there is one
CloseDb(d) == IF d = "created" THEN "closed" ELSE d

\* lines 152-166 and the finally clause: report, Job Finished
Report ==
    /\ rpc = "report"
    /\ RunUnchanged
    /\ UNCHANGED <<cfg, executed_steps, loaded, execution_queue, plan, answer>>
    /\ \/ /\ alerts' = Append(alerts, Alert("Job Finished", NoName,
                                            _format_steps_summary(executed_steps)))
          /\ db' = CloseDb(db)
          /\ rpc' = "returned"
          /\ UNCHANGED exc
       \/ \* reporter.generate_report raises
          /\ rpc' = "except"
          /\ exc' = <<NewError(NoName)>>
          /\ UNCHANGED <<alerts, db>>

\* lines 168-186: Job Failed, exit 1, close the DatabaseManager
Fail ==
    /\ rpc = "except"
    /\ RunUnchanged
    /\ UNCHANGED <<cfg, executed_steps, loaded, execution_queue, exc, plan, answer>>
    /\ alerts' = Append(alerts, Alert("Job Failed", exc[1].failed_step,
                                      _format_steps_summary(executed_steps)))
    /\ db' = CloseDb(db)
    /\ rpc' = "exit1"


----------------------------------------------------------------------------
(* Executor._run_steps *)

StepUnchanged ==
    UNCHANGED <<cfg, executed_steps, db, execution_queue, plan, answer, lib>>

\* mutant: linear backoff
BackoffLinear(attempt) == 5 * (attempt + 1)

\* backoff of line 390
Backoff(attempt) == 5 * 2 ^ attempt

\* lines 205-229: take the next step; at a change of transaction_group commit
\* and close the current session and open the next one; open a session if none
\* is current. The commits and get_session are outside the try block.
TxnBoundary ==
    /\ Running /\ Top.pc = "loop" /\ Top.i <= Len(Top.queue)
    /\ StepUnchanged
    /\ UNCHANGED <<alerts, done, marks, scripts, exits, loaded, tries, waits>>
    /\ LET f == Top
           step == CurStep(f)
           crossing == step.group # f.group
       IN  \/ \* lines 214-218 return, get_session returns
              /\ LET closed == IF crossing /\ f.session # NoSession
                               THEN CommitAndClose(sessions, f.session)
                               ELSE sessions
                     fresh == crossing \/ f.session = NoSession
                 IN  /\ sessions' = IF fresh THEN OpenSession(closed) ELSE closed
                     /\ stack' = SetTop([f EXCEPT
                            !.group = step.group,
                            !.session = IF fresh THEN Len(sessions) + 1 ELSE @,
                            !.pc = "try"])
              /\ UNCHANGED <<exc, rpc, built>>
           \/ \* current_session.commit() raises (line 216)
              /\ crossing /\ f.session # NoSession
              /\ UNCHANGED sessions
              /\ RaiseOutside(f)
           \/ \* db_manager.get_session() raises (lines 222, 226, 229)
              /\ crossing \/ f.session = NoSession
              /\ sessions' = IF crossing /\ f.session # NoSession
                             THEN CommitAndClose(sessions, f.session)
                             ELSE sessions
              /\ RaiseOutside(f)

\* lines 232-238: pre-flight cleanup of the step's cleanup_target, when it has
\* one, in the current session (drop_table and truncate_table, database.py)
Cleanup ==
    /\ Running /\ Top.pc = "try"
    /\ StepUnchanged
    /\ UNCHANGED <<alerts, done, marks, scripts, exits, loaded, tries, waits>>
    /\ LET f == Top IN
       \/ \* no cleanup_target, or the table does not exist
          /\ stack' = SetTop([f EXCEPT !.pc = "dispatch"])
          /\ UNCHANGED <<sessions, exc, rpc, built>>
       \/ \* the table is dropped or truncated
          /\ sessions' = AddEffect(sessions, f.session, CurStep(f).name)
          /\ stack' = SetTop([f EXCEPT !.pc = "dispatch"])
          /\ UNCHANGED <<exc, rpc, built>>
       \/ \* the cleanup raises
          /\ UNCHANGED sessions
          /\ RaiseInTry(f)

\* lines 243-244 and 327-346: read the file, render, prepare the profiler
SqlStart ==
    /\ Running /\ Top.pc = "dispatch" /\ CurStep(Top).type \in {"sql", "plsql"}
    /\ StepUnchanged
    /\ UNCHANGED <<alerts, done, marks, scripts, exits, loaded, sessions>>
    /\ LET f == Top IN
       \/ /\ stack' = SetTop([f EXCEPT !.pc = "sql"])
          /\ tries' = 0
          /\ waits' = << >>
          /\ UNCHANGED <<exc, rpc, built>>
       \/ \* read_sql_file or render_template raises
          /\ UNCHANGED <<tries, waits>>
          /\ RaiseInTry(f)

\* mutant: one more pass of the retry loop
OneMoreRetry(attempt) == attempt <= retries

\* lines 347 and 389: after a failed attempt the for loop over
\* range(retries + 1) has another pass
AttemptsLeft(attempt) == attempt < retries

\* lines 347-395: one pass of the retry loop; `tries` is the loop variable
\* attempt before the call and the number of calls made after it
SqlAttempt ==
    /\ Running /\ Top.pc = "sql"
    /\ StepUnchanged
    /\ UNCHANGED <<alerts, done, marks, scripts, exits, loaded>>
    /\ LET f == Top
           attempt == tries
       IN  \/ \* execute_query returns: break (line 387)
              /\ sessions' = AddEffect(sessions, f.session, CurStep(f).name)
              /\ stack' = SetTop([f EXCEPT !.pc = "post"])
              /\ tries' = 0
              /\ waits' = << >>
              /\ UNCHANGED <<exc, rpc, built>>
           \/ \* execute_query raises, attempts are left: sleep (lines 389-392)
              /\ AttemptsLeft(attempt)
              /\ tries' = attempt + 1
              /\ waits' = Append(waits, Backoff(attempt))
              /\ UNCHANGED <<stack, sessions, exc, rpc, built>>
           \/ \* execute_query raises on the last attempt: raise (lines 393-395)
              /\ ~AttemptsLeft(attempt)
              /\ tries' = attempt + 1
              /\ UNCHANGED <<waits, sessions>>
              /\ RaiseInTry(f)

\* lines 245-251: a python step commits and closes the current session
PythonCommit ==
    /\ Running /\ Top.pc = "dispatch" /\ CurStep(Top).type = "python"
    /\ StepUnchanged
    /\ UNCHANGED <<alerts, done, marks, scripts, exits, loaded, tries, waits>>
    /\ LET f == Top IN
       \/ /\ sessions' = IF f.session # NoSession
                         THEN CommitAndClose(sessions, f.session) ELSE sessions
          /\ stack' = SetTop([f EXCEPT
                 !.session = NoSession,
                 !.group = IF f.session # NoSession THEN NoGroup ELSE @,
                 !.pc = "script"])
          /\ UNCHANGED <<exc, rpc, built>>
       \/ \* current_session.commit() raises (line 248)
          /\ f.session # NoSession
          /\ UNCHANGED sessions
          /\ RaiseInTry(f)

\* lines 253 and 399-413: the script file is looked up and the script started
PythonStart ==
    /\ Running /\ Top.pc = "script"
    /\ StepUnchanged
    /\ UNCHANGED <<alerts, done, marks, exits, loaded, tries, waits, sessions>>
    /\ LET f == Top IN
       \/ /\ scripts' = scripts \cup {CurStep(f).name}
          /\ stack' = SetTop([f EXCEPT !.pc = "running"])
          /\ UNCHANGED <<exc, rpc, built>>
       \/ \* the file does not exist (line 401)
          /\ UNCHANGED scripts
          /\ RaiseInTry(f)

\* the exit codes of a script: success and one failure
ExitCodes == {0, 1}

\* mutant: subprocess.run without check=True
NoCheck(returncode) == FALSE

\* line 413: with check=True subprocess.run raises on a non-zero exit code
CalledProcessError(returncode) == returncode # 0

\* lines 413-417: subprocess.run returns, or raises on a non-zero exit
PythonEnd ==
    /\ Running /\ Top.pc = "running"
    /\ StepUnchanged
    /\ UNCHANGED <<alerts, done, marks, scripts, loaded, tries, waits, sessions>>
    /\ LET f == Top IN
       \/ \E returncode \in ExitCodes :
            /\ exits' = Append(exits, [name |-> CurStep(f).name,
                                       returncode |-> returncode])
            /\ IF CalledProcessError(returncode)
               THEN RaiseInTry(f)
               ELSE /\ stack' = SetTop([f EXCEPT !.pc = "post"])
                    /\ UNCHANGED <<exc, rpc, built>>
       \/ \* subprocess.run raises another error (the script cannot be started)
          /\ UNCHANGED exits
          /\ RaiseInTry(f)

\* lines 254-260: a manifest step commits and closes the current session
ManifestCommit ==
    /\ Running /\ Top.pc = "dispatch" /\ CurStep(Top).type = "manifest"
    /\ StepUnchanged
    /\ UNCHANGED <<alerts, done, marks, scripts, exits, loaded, tries, waits>>
    /\ LET f == Top IN
       \/ /\ sessions' = IF f.session # NoSession
                         THEN CommitAndClose(sessions, f.session) ELSE sessions
          /\ stack' = SetTop([f EXCEPT
                 !.session = NoSession,
                 !.group = IF f.session # NoSession THEN NoGroup ELSE @,
                 !.pc = "child"])
          /\ UNCHANGED <<exc, rpc, built>>
       \/ \* current_session.commit() raises (line 257)
          /\ f.session # NoSession
          /\ UNCHANGED sessions
          /\ RaiseInTry(f)

\* mutant: the nested plan is run with the YamlManager of the root manifest
SharedYaml(step) == RootManifest

\* lines 307-311: child_yaml = YamlManager(file_path), the file of this step
ChildYaml(step) == step.name

\* mutant: the nested plan inherits the notify flag of its caller
InheritNotify(notify) == notify

\* line 323: the nested plan runs with notify=False, whatever the caller's
ChildNotify(notify) == FALSE

\* lines 262 and 305-323: load the child manifest and run its enabled steps in
\* a new _run_steps call, with notify=False
ManifestCall ==
    /\ Running /\ Top.pc = "child"
    /\ StepUnchanged
    /\ UNCHANGED <<alerts, done, marks, scripts, exits, tries, waits, sessions>>
    /\ LET f == Top IN
       \/ /\ \E n \in 0..(MaxTotal - loaded) :
               \E child_steps \in Manifests(CurStep(f).name, Depth + 1, n) :
                 /\ loaded' = loaded + n
                 /\ stack' = Append(SetTop([f EXCEPT !.pc = "wait"]),
                                    NewFrame(FilterEnabled(child_steps, cfg.enable_all),
                                             ChildYaml(CurStep(f)),
                                             ChildNotify(f.notify)))
          /\ UNCHANGED <<exc, rpc, built>>
       \/ \* the file does not exist or load_manifest raises (lines 308-312)
          /\ UNCHANGED loaded
          /\ RaiseInTry(f)

\* lines 263-265: a step of unknown type is skipped
Unknown ==
    /\ Running /\ Top.pc = "dispatch"
    /\ CurStep(Top).type \notin {"sql", "plsql", "python", "manifest"}
    /\ StepUnchanged
    /\ UNCHANGED <<alerts, done, marks, scripts, exits, loaded, tries, waits, sessions, exc,
                   rpc, built>>
    /\ stack' = SetTop([Top EXCEPT !.i = @ + 1, !.pc = "loop"])

\* mutant: the record does not carry the step's transaction_group
RecordWithoutGroup(executed, step) ==
    Append(executed, [name |-> step.name, group |-> NoGroup])

\* line 268: the record appended to executed_steps
Record(executed, step) ==
    Append(executed, [name |-> step.name, group |-> step.group])

\* lines 267-279: record the step, disable it in the manifest, notify
PostProcess ==
    /\ Running /\ Top.pc = "post"
    /\ StepUnchanged
    /\ UNCHANGED <<scripts, exits, loaded, tries, waits, sessions>>
    /\ LET f == Top
           step == CurStep(f)
           g == [f EXCEPT !.executed = Record(@, step)]
       IN  \/ \E announce \in BOOLEAN :
                \* announce: step.get('notify') or duration > 5 (line 273)
                /\ done' = done \cup {step.name}
                /\ marks' = Append(marks, [store |-> f.yaml_manager,
                                           name  |-> step.name])
                /\ alerts' = IF f.notify /\ announce
                             THEN Append(alerts, Alert("Step Completed", step.name, << >>))
                             ELSE alerts
                /\ stack' = SetTop([g EXCEPT !.i = @ + 1, !.pc = "loop"])
                /\ UNCHANGED <<exc, rpc, built>>
           \/ \* yaml_manager.disable_step raises (line 271)
              /\ UNCHANGED <<done, marks, alerts>>
              /\ RaiseInTry(g)

\* lines 281-296: roll back and close the current session, notify, attach the
\* step name, re-raise
Except ==
    /\ Running /\ Top.pc = "except"
    /\ StepUnchanged
    /\ UNCHANGED <<done, marks, scripts, exits, loaded, tries, waits>>
    /\ LET f == Top IN
       /\ sessions' = IF f.session # NoSession
                      THEN RollbackAndClose(sessions, f.session) ELSE sessions
       /\ alerts' = IF f.notify
                    THEN Append(alerts, Alert("Step Failed", CurStep(f).name, << >>))
                    ELSE alerts
       /\ exc' = <<AttachFailedStep(exc[1], CurStep(f).name)>>
       /\ Propagate(f)

\* lines 298-303: after the last step commit and close the open session, return
Return ==
    /\ Running /\ Top.pc = "loop" /\ Top.i > Len(Top.queue)
    /\ UNCHANGED <<cfg, db, execution_queue, plan, answer, lib>>
    /\ UNCHANGED <<alerts, done, marks, scripts, exits, loaded, tries, waits>>
    /\ LET f == Top IN
       \/ /\ sessions' = IF f.session # NoSession
                         THEN CommitAndClose(sessions, f.session) ELSE sessions
          /\ UNCHANGED exc
          /\ IF Len(stack) = 1
             THEN /\ stack' = << >>
                  /\ rpc' = "report"
                  /\ executed_steps' = f.executed
                  /\ built' = f.executed
             ELSE /\ stack' = [SubSeq(stack, 1, Len(stack) - 1)
                                 EXCEPT ![Len(stack) - 1].pc = "post"]
                  /\ UNCHANGED <<rpc, executed_steps, built>>
       \/ \* current_session.commit() raises (line 300)
          /\ f.session # NoSession
          /\ UNCHANGED <<sessions, executed_steps>>
          /\ RaiseOutside(f)

----------------------------------------------------------------------------
(* Specification *)

\* no PostgresExplainProfiler is in use
ExplainIdle ==
    /\ rows = << >>
    /\ profiler = [raw_plan_json |-> << >>, metrics |-> << >>, captured |-> FALSE]

\* the components modelled on their own are not in use
LibIdle ==
    /\ yaml_file = << >>
    /\ yaml_call = [name |-> NoName, before |-> << >>]
    /\ sql_step = [pc |-> "off"]
    /\ step_run = [pc |-> "off"]
    /\ tasks_data = << >>
    /\ metrics = << >>
    /\ ExplainIdle

\* the state after Executor.__init__ (lines 38-62), whatever the flags
Constructed ==
    /\ LibIdle
    /\ rpc = "load"
    /\ stack = << >>
    /\ sessions = << >>
    /\ exc = << >>
    /\ alerts = << >>
    /\ executed_steps = << >>
    /\ built = << >>
    /\ done = {}
    /\ marks = << >>
    /\ scripts = {}
    /\ exits = << >>
    /\ loaded = 0
    /\ execution_queue = << >>
    /\ db = "none"
    /\ tries = 0
    /\ waits = << >>
    /\ all_steps = << >>
    /\ plan_items = << >>
    /\ answer = "none"

\* a first pass: no manifest holds a disabled step, enable_all is off
Init ==
    /\ cfg \in [dry_run : BOOLEAN, force : BOOLEAN, enable_all : {FALSE}]
    /\ files = "fresh"
    /\ Constructed

\* any pass: manifests may hold disabled steps, enable_all may be set
InitRerun ==
    /\ cfg \in [dry_run : BOOLEAN, force : BOOLEAN, enable_all : BOOLEAN]
    /\ files \in {"fresh", "used"}
    /\ Constructed

Next ==
    \/ Load
    \/ Confirm
    \/ Decide
    \/ Start
    \/ Report
    \/ Fail
    \/ TxnBoundary
    \/ Cleanup
    \/ SqlStart
    \/ SqlAttempt
    \/ PythonCommit
    \/ PythonStart
    \/ PythonEnd
    \/ ManifestCommit
    \/ ManifestCall
    \/ Unknown
    \/ PostProcess
    \/ Except
    \/ Return

Spec == Init /\ [][Next]_vars

SpecRerun == InitRerun /\ [][Next]_vars

\* The engine is one sequential process: whenever a step of it can be taken,
\* one is taken (every collaborator call returns or raises).
FairSpec == Spec /\ WF_vars(Next)

----------------------------------------------------------------------------
(* YamlManager.disable_step (src/src/yaml_manager.py), on its own *)

\* steps of the manifest file
MaxYamlSteps == 3
\* step names in the file (a name may occur twice), and one that never occurs
YamlNames == {1, 2}
MissingName == 9
\* the value of a step's enabled key: true, false, null, or the key is absent
EnabledValues == {"true", "false", "null", "absent"}

\* manifest files: each step has a name, an enabled value and possibly the
\* '# Done' comment on its enabled key
YamlFiles ==
    UNION { [1..n -> [name : YamlNames, enabled : EnabledValues, comment : BOOLEAN]]
            : n \in 0..MaxYamlSteps }

\* lines 62-63: the index of the first step named step_name, 0 if there is none
FirstNamed(data, step_name) ==
    IF \E j \in 1..Len(data) : data[j].name = step_name
    THEN CHOOSE j \in 1..Len(data) :
            /\ data[j].name = step_name
            /\ \A k \in 1..(j - 1) : data[k].name # step_name
    ELSE 0

\* mutant: the step is rewritten even when it is already disabled
DisableAlways(data, step_name) ==
    LET j == FirstNamed(data, step_name) IN
    IF j = 0 THEN data
    ELSE [data EXCEPT ![j].enabled = "false", ![j].comment = ~@]

\* lines 54-92: the file after disable_step(step_name): unchanged when no step
\* has the name (lines 85-87) or the first one that has it is enabled: false
\* (lines 64-66); else that step gets enabled: false and the comment
disable_step(data, step_name) ==
    LET j == FirstNamed(data, step_name) IN
    IF j = 0 THEN data
    ELSE IF data[j].enabled = "false" THEN data
    ELSE [data EXCEPT ![j].enabled = "false", ![j].comment = TRUE]

\* the engine is not part of this specification
EngineOff ==
    /\ cfg = [dry_run |-> FALSE, force |-> FALSE, enable_all |-> FALSE]
    /\ rpc = "off"
    /\ stack = << >> /\ sessions = << >> /\ exc = << >> /\ alerts = << >>
    /\ executed_steps = << >> /\ built = << >> /\ done = {} /\ scripts = {}
    /\ marks = << >> /\ exits = << >>
    /\ loaded = 0 /\ execution_queue = << >> /\ db = "none"
    /\ tries = 0 /\ waits = << >>
    /\ files = "fresh" /\ all_steps = << >> /\ plan_items = << >>
    /\ answer = "none"

InitYaml ==
    /\ EngineOff
    /\ yaml_file \in YamlFiles
    /\ yaml_call = [name |-> NoName, before |-> << >>]
    /\ sql_step = [pc |-> "off"]
    /\ step_run = [pc |-> "off"]
    /\ tasks_data = << >>
    /\ metrics = << >>
    /\ ExplainIdle

\* one call of disable_step
DisableStep ==
    /\ \E step_name \in YamlNames \cup {MissingName} :
         /\ yaml_file' = disable_step(yaml_file, step_name)
         /\ yaml_call' = [name |-> step_name, before |-> yaml_file]
    /\ UNCHANGED <<engine, sql_step, step_run, reporter, explain>>

NextYaml == DisableStep

SpecYaml == InitYaml /\ [][NextYaml]_vars

----------------------------------------------------------------------------
(* Reporter.add_task_result (src/src/reporter.py lines 22-74), on its own *)

\* the largest value of a metric (times in ms, block counts)
MaxMetric == 2
\* add_task_result calls
MaxTasks == 1

\* the keys of a metrics dict that add_task_result reads for the bottleneck
MetricKeys == {"db_cpu_ms", "db_io_ms", "io_requests", "cache_hits"}

\* metrics dicts: any subset of the keys, each with a non-negative value
MetricsDicts ==
    UNION { [keys -> 0..MaxMetric] : keys \in SUBSET MetricKeys }

\* dict.get(key, 0)
Get(dict, key) == IF key \in DOMAIN dict THEN dict[key] ELSE 0

\* mutant: an even split of cpu and io counts as I/O
BottleneckTieIsIO(m) ==
    LET cpu == Get(m, "db_cpu_ms")
        io == Get(m, "db_io_ms")
    IN  IF cpu + io > 0
        THEN IF 2 * io >= cpu + io THEN "I/O" ELSE "CPU"
        ELSE "Unknown"

\* lines 38-57: the bottleneck; cpu and io are the times in ms (the code
\* divides both by 1000.0 first), and x / total > 0.5 is 2 * x > total
Bottleneck(m) ==
    LET cpu == Get(m, "db_cpu_ms")
        io == Get(m, "db_io_ms")
        total_resource == cpu + io
        reads == Get(m, "io_requests")
        hits == Get(m, "cache_hits")
        total_ops == reads + hits
    IN  IF total_resource > 0
        THEN IF 2 * io > total_resource THEN "I/O" ELSE "CPU"
        ELSE IF Get(m, "io_requests") > 0 /\ Get(m, "cache_hits") >= 0
             THEN IF total_ops > 0 /\ 2 * reads > total_ops THEN "I/O" ELSE "CPU"
             ELSE "Unknown"

\* lines 60-72: the entry appended for the call; plan_file is the number in
\* the plan file's name, 0 when the file could not be written (line 36)
TaskEntry(m, plan_file) ==
    [cpu_time_ms |-> Get(m, "db_cpu_ms"),
     io_time_ms  |-> Get(m, "db_io_ms"),
     bottleneck  |-> Bottleneck(m),
     plan_file   |-> plan_file]

\* mutant: the plan files are numbered from zero
NumberFromZero(tasks) == Len(tasks)

\* line 28: the number in plan_filename, len(self.tasks_data) + 1
plan_number(tasks) == Len(tasks) + 1

InitReporter ==
    /\ EngineOff
    /\ yaml_file = << >>
    /\ yaml_call = [name |-> NoName, before |-> << >>]
    /\ sql_step = [pc |-> "off"]
    /\ step_run = [pc |-> "off"]
    /\ tasks_data = << >>
    /\ metrics = << >>
    /\ ExplainIdle

\* one call of add_task_result
AddTaskResult ==
    /\ Len(tasks_data) < MaxTasks
    /\ \E m \in MetricsDicts : \E saved \in BOOLEAN :
         /\ metrics' = m
         /\ tasks_data' = Append(tasks_data,
                TaskEntry(m, IF saved THEN plan_number(tasks_data) ELSE 0))
    /\ UNCHANGED <<engine, yaml, sql_step, step_run, explain>>

NextReporter == AddTaskResult

SpecReporter == InitReporter /\ [][NextReporter]_vars

----------------------------------------------------------------------------
(* Executor._execute_sql_step (lines 325-395), on its own: profiling, output *)
(* file and retries of one SQL step                                         *)

\* db_config['dialect'] values: Oracle, Postgres, and one without a profiler
Dialects == {"oracle+oracledb", "postgresql+psycopg2", "sqlite"}

\* lines 335-341: the profiling strategy chosen for the dialect
ProfilerFor(dialect) ==
    IF dialect = "oracle+oracledb" THEN "OracleMonitorProfiler"
    ELSE IF dialect = "postgresql+psycopg2" THEN "PostgresExplainProfiler"
    ELSE "None"

\* the profiling operations of lines 369-383, in call order
CaptureOps ==
    <<"post_execution_capture", "get_metrics", "get_plan_content", "add_task_result">>

\* what the file of a step may hold, as a sequence of tokens
SqlFiles == {<<"SELECT", "{{ p }}">>, <<"SELECT", "1", ";">>}

\* utils.render_template (lines 6-25): the content itself without params,
\* else the template with every placeholder replaced by its value
render_template(content, params) ==
    IF ~params THEN content
    ELSE [k \in 1..Len(content) |->
            IF content[k] = "{{ p }}" THEN "value" ELSE content[k]]

\* PostgresExplainProfiler.prepare_query (postgres_explain.py lines 17-23):
\* the trailing semicolon is removed and the statement wrapped in EXPLAIN
PostgresPrepare(sql) ==
    <<"EXPLAIN">> \o (IF sql # << >> /\ sql[Len(sql)] = ";"
                      THEN SubSeq(sql, 1, Len(sql) - 1) ELSE sql)

\* OracleMonitorProfiler.prepare_query (oracle_monitor.py lines 19-41): the
\* MONITOR hint is put after a leading verb
OraclePrepare(sql) ==
    IF sql # << >> /\ sql[1] \in {"SELECT", "INSERT", "UPDATE", "DELETE", "MERGE"}
    THEN <<sql[1], "/*+ MONITOR */">> \o Tail(sql)
    ELSE sql

\* line 344: profiler.prepare_query(final_sql) of the chosen strategy
prepare_query(strategy, sql) ==
    IF strategy = "PostgresExplainProfiler" THEN PostgresPrepare(sql)
    ELSE IF strategy = "OracleMonitorProfiler" THEN OraclePrepare(sql)
    ELSE sql

\* how long one execute_query call may take, in ms of wall-clock time
ExecMs == {1, 2}

\* what profiler.get_metrics() may return (line 370): a dict without
\* duration_ms, or with a duration_ms of zero, or of 7 ms
StrategyMetrics ==
    {<< >>} \cup [{"duration_ms"} -> {0, 7}]

\* mutant: the clock is read once, before the first attempt
StartOfStep(sql, now) == IF sql.attempt = 0 THEN now ELSE sql.start_exec

\* line 349: start_exec = time.time(), in every pass of the retry loop
StartExec(sql, now) == now

\* lines 373-374: metrics['duration_ms'] = duration_exec * 1000.0 when
\* metrics.get('duration_ms', 0) == 0
Backfill(m, duration_exec) ==
    IF Get(m, "duration_ms") = 0
    THEN [k \in DOMAIN m \cup {"duration_ms"} |->
             IF k = "duration_ms" THEN duration_exec ELSE m[k]]
    ELSE m

\* the state at the call of _execute_sql_step: the step (its file, params and
\* output_file), the session argument, and what the call has done so far;
\* now is the wall clock in ms, earlier the length of Reporter.tasks_data
\* at the call
InitSqlStep ==
    sql_step \in [pc : {"start"}, dialect : Dialects, output_file : BOOLEAN,
                  file : SqlFiles, params : BOOLEAN, session : {1},
                  profiler : {"None"}, attempt : {0}, prepared : {0},
                  reads : {0}, renders : {0}, final_sql : {<< >>},
                  calls : {<< >>},
                  now : {0}, start_exec : {0}, duration_exec : {0},
                  strategy : {<< >>}, earlier : {Len(tasks_data)},
                  statements : {0}, succeeded : {0}, slept : {<< >>},
                  entries : {0}, swallowed : {"none"}, cause : {"none"}]

SqlUnchanged == UNCHANGED <<engine, yaml, step_run, reporter, explain>>

\* the call raises: the error of `cause` leaves _execute_sql_step
SqlRaise(cause) == sql_step' = [sql_step EXCEPT !.pc = "raised", !.cause = cause]

\* lines 327-344: read the file, render the template, choose the profiler and
\* let it prepare the query; none of this is inside a try block
SqlPrepare ==
    /\ sql_step.pc = "start"
    /\ SqlUnchanged
    /\ LET strategy == ProfilerFor(sql_step.dialect)
           rendered == render_template(sql_step.file, sql_step.params)
       IN
       \/ \* read_sql_file raises (line 328)
          sql_step' = [sql_step EXCEPT
              !.pc = "raised", !.cause = "read_sql_file", !.reads = @ + 1]
       \/ \* render_template raises (line 332)
          /\ sql_step.params
          /\ sql_step' = [sql_step EXCEPT
                 !.pc = "raised", !.cause = "read_sql_file",
                 !.reads = @ + 1, !.renders = @ + 1]
       \/ \* no profiler, or prepare_query returns
          sql_step' = [sql_step EXCEPT
              !.pc = "execute",
              !.reads = @ + 1,
              !.renders = @ + 1,
              !.profiler = strategy,
              !.prepared = IF strategy # "None" THEN @ + 1 ELSE @,
              !.final_sql = prepare_query(strategy, rendered)]
       \/ \* prepare_query raises (line 344)
          /\ strategy # "None"
          /\ sql_step' = [sql_step EXCEPT
                 !.pc = "raised", !.cause = "prepare_query",
                 !.reads = @ + 1, !.renders = @ + 1,
                 !.profiler = strategy, !.prepared = @ + 1,
                 !.final_sql = rendered]

\* line 350: db_manager.execute_query(final_sql, session=session)
SqlExecute ==
    /\ sql_step.pc = "execute"
    /\ SqlUnchanged
    /\ \E took \in ExecMs :
       LET call(returned) == [sql |-> sql_step.final_sql,
                              session |-> sql_step.session,
                              returned |-> returned,
                              took |-> took]
           start_exec == StartExec(sql_step, sql_step.now)
           end_exec == sql_step.now + took
       IN
       \/ \* line 351: duration_exec = time.time() - start_exec
          sql_step' = [sql_step EXCEPT
              !.pc = "output", !.statements = @ + 1, !.succeeded = @ + 1,
              !.calls = Append(@, call(TRUE)),
              !.start_exec = start_exec, !.now = end_exec,
              !.duration_exec = end_exec - start_exec]
       \/ \* execute_query raises
          sql_step' = [sql_step EXCEPT
              !.pc = "failed", !.statements = @ + 1, !.cause = "execute_query",
              !.calls = Append(@, call(FALSE)),
              !.start_exec = start_exec, !.now = end_exec]

\* lines 354-364: the rows are written to the step's output_file
SqlOutput ==
    /\ sql_step.pc = "output"
    /\ SqlUnchanged
    /\ \/ sql_step' = [sql_step EXCEPT !.pc = "capture"]
       \/ \* fetchall, mkdir, open or write raises
          /\ sql_step.output_file
          /\ sql_step' = [sql_step EXCEPT !.pc = "failed", !.cause = "output_file"]

\* lines 367-387: the profiling capture in its own try block, then break
SqlCapture ==
    /\ sql_step.pc = "capture"
    /\ UNCHANGED <<engine, yaml, step_run, explain>>
    /\ \/ \* no profiler (line 367)
          /\ sql_step.profiler = "None"
          /\ sql_step' = [sql_step EXCEPT !.pc = "returned"]
          /\ UNCHANGED reporter
       \/ \* every operation returns: the metrics, with the duration filled
          \* in, go to add_task_result, which appends one entry
          /\ sql_step.profiler # "None"
          /\ \E m \in StrategyMetrics : \E saved \in BOOLEAN :
               /\ sql_step' = [sql_step EXCEPT
                      !.pc = "returned", !.entries = @ + 1, !.strategy = m]
               /\ metrics' = Backfill(m, sql_step.duration_exec)
               /\ tasks_data' = Append(tasks_data,
                      TaskEntry(metrics',
                                IF saved THEN plan_number(tasks_data) ELSE 0))
       \/ \* one of the operations raises: logged (lines 384-385)
          /\ sql_step.profiler # "None"
          /\ \E k \in 1..Len(CaptureOps) :
                sql_step' = [sql_step EXCEPT
                    !.pc = "returned", !.swallowed = CaptureOps[k]]
          /\ UNCHANGED reporter

\* mutant: a retry starts the handler again, from the read of the file
RestartOnFailure(attempt) == IF attempt < retries THEN "start" ELSE "raised"

\* lines 347 and 389-395: where the except clause of the retry loop goes: the
\* next pass of the loop, at execute_query, or out by raise
RetryTarget(attempt) == IF attempt < retries THEN "execute" ELSE "raised"

\* lines 388-395: the except clause of the retry loop
SqlRetry ==
    /\ sql_step.pc = "failed"
    /\ SqlUnchanged
    /\ IF sql_step.attempt < retries
       THEN sql_step' = [sql_step EXCEPT
                !.pc = RetryTarget(sql_step.attempt),
                !.attempt = @ + 1,
                !.slept = Append(@, Backoff(sql_step.attempt)),
                !.now = @ + 1000 * Backoff(sql_step.attempt)]
       ELSE sql_step' = [sql_step EXCEPT !.pc = RetryTarget(sql_step.attempt)]

InitSql ==
    /\ EngineOff
    /\ yaml_file = << >>
    /\ yaml_call = [name |-> NoName, before |-> << >>]
    /\ tasks_data \in {<< >>} \cup {<<TaskEntry(<< >>, n)>> : n \in {0, 1}}
    /\ metrics = << >>
    /\ ExplainIdle
    /\ step_run = [pc |-> "off"]
    /\ InitSqlStep

NextSql ==
    \/ SqlPrepare
    \/ SqlExecute
    \/ SqlOutput
    \/ SqlCapture
    \/ SqlRetry

SpecSql == InitSql /\ [][NextSql]_vars

----------------------------------------------------------------------------
(* PostgresExplainProfiler (src/src/profiler/postgres_explain.py), on its own *)

\* nodes of a plan tree
MaxPlanNodes == 2
\* the largest value of a node attribute (blocks, ms, workers)
MaxCount == 1

\* 'Node Type' values: the one the profiler looks for and two it does not
NodeTypes == {"Gather", "Gather Merge", "Seq Scan"}

\* the node attributes _analyze_plan_node reads (lines 91-115)
ReadKeys == {"Shared Read Blocks", "Local Read Blocks", "Temp Read Blocks"}
HitKeys == {"Shared Hit Blocks", "Local Hit Blocks"}
TimeKeys == {"I/O Read Time", "I/O Write Time"}
AttrKeys == ReadKeys \cup HitKeys \cup TimeKeys \cup {"Workers Launched"}

\* 'Execution Time' of the root document: absent (read as 0) or 7 ms
ExecTimes == {0, 7}

\* node attribute dicts over at most `width` of the keys
AttrDicts(width) ==
    UNION { [keys -> 1..MaxCount] :
            keys \in {K \in SUBSET AttrKeys : Cardinality(K) <= width} }

\* plan nodes with attributes over at most `width` of the keys; a node carries
\* the index of its parent (0 for the root)
PlanNodes(width, parents) ==
    [type : NodeTypes, attrs : AttrDicts(width), parent : parents]

\* A plan tree is the sequence of its nodes, parents before children; the
\* 'Plans' of a node are its children in index order.
IsTree(t) ==
    /\ t[1].parent = 0
    /\ \A i \in 2..Len(t) : 1 <= t[i].parent /\ t[i].parent < i

\* dict[key] = value
Put(dict, key, value) ==
    [k \in DOMAIN dict \cup {key} |-> IF k = key THEN value ELSE dict[k]]

Max(a, b) == IF a >= b THEN a ELSE b

\* lines 88-116: the sums and the maximum for one node
Accumulate(m, node) ==
    LET a == node.attrs
        read_blocks == Get(a, "Shared Read Blocks") + Get(a, "Local Read Blocks")
                        + Get(a, "Temp Read Blocks")
        hit_blocks == Get(a, "Shared Hit Blocks") + Get(a, "Local Hit Blocks")
        io_time == Get(a, "I/O Read Time") + Get(a, "I/O Write Time")
        m1 == Put(m, "read_blocks", Get(m, "read_blocks") + read_blocks)
        m2 == Put(m1, "hit_blocks", Get(m1, "hit_blocks") + hit_blocks)
        m3 == Put(m2, "db_io_ms", Get(m2, "db_io_ms") + io_time)
    IN  IF node.type = "Gather"
        THEN Put(m3, "parallel_degree",
                 Max(Get(m3, "parallel_degree"), Get(a, "Workers Launched")))
        ELSE m3

\* mutant: the children of a node are not visited
AnalyzeRootOnly(tree, i, m) == Accumulate(m, tree[i])

RECURSIVE _analyze_plan_node(_, _, _)
RECURSIVE AnalyzeChildren(_, _, _, _)

\* lines 118-121: for child in node['Plans'], from child j on
AnalyzeChildren(tree, i, j, m) ==
    IF j > Len(tree) THEN m
    ELSE IF tree[j].parent = i
         THEN AnalyzeChildren(tree, i, j + 1, _analyze_plan_node(tree, j, m))
         ELSE AnalyzeChildren(tree, i, j + 1, m)

\* lines 84-121: the node, then its children
_analyze_plan_node(tree, i, m) ==
    AnalyzeChildren(tree, i, i + 1, Accumulate(m, tree[i]))

\* lines 25-82: the profiler after post_execution_capture of `fetched`
post_execution_capture(p, fetched) ==
    IF fetched = << >>
    THEN \* no rows (lines 36-38)
         [p EXCEPT !.captured = TRUE]
    ELSE LET root_node == fetched[1]
             analyzed == _analyze_plan_node(root_node.plan, 1, p.metrics)
             m1 == Put(analyzed, "duration_ms", root_node.exec_time)
             m2 == Put(m1, "io_requests", Get(analyzed, "read_blocks"))
             m3 == Put(m2, "cache_hits", Get(analyzed, "hit_blocks"))
         IN  [raw_plan_json |-> fetched, metrics |-> m3, captured |-> TRUE]

\* a fresh profiler (lines 13-15) and the rows the EXPLAIN statement returned
InitExplain ==
    /\ EngineOff
    /\ yaml_file = << >>
    /\ yaml_call = [name |-> NoName, before |-> << >>]
    /\ sql_step = [pc |-> "off"]
    /\ step_run = [pc |-> "off"]
    /\ tasks_data = << >>
    /\ metrics = << >>
    /\ \/ \* the statement returned no row
          rows = << >>
       \/ \* a single node with any attributes
          \E exec_time \in ExecTimes :
            \E node \in PlanNodes(Cardinality(AttrKeys), {0}) :
              rows = <<[plan |-> <<node>>, exec_time |-> exec_time]>>
       \/ \* a tree of up to MaxPlanNodes nodes with at most one attribute each
          \E exec_time \in ExecTimes : \E n \in 1..MaxPlanNodes :
            \E tree \in [1..n -> PlanNodes(1, 0..(n - 1))] :
              /\ IsTree(tree)
              /\ rows = <<[plan |-> tree, exec_time |-> exec_time]>>
    /\ profiler = [raw_plan_json |-> << >>, metrics |-> << >>, captured |-> FALSE]

\* one call of post_execution_capture
PostExecutionCapture ==
    /\ ~profiler.captured
    /\ profiler' = post_execution_capture(profiler, rows)
    /\ UNCHANGED <<engine, yaml, sql_step, step_run, reporter, rows>>

NextExplain == PostExecutionCapture

SpecExplain == InitExplain /\ [][NextExplain]_vars

----------------------------------------------------------------------------
(* One pass of the loop body of Executor._run_steps (lines 231-296), on its *)
(* own: the cleanup, the dispatch, the post-processing and the except       *)
(* clause for one step, with every call it makes                            *)

\* step.get('cleanup_target'): no such key, an empty name, a table name
CleanupTargets == {"absent", "", "T"}
\* step.get('cleanup_mode'): no such key, the two known modes, any other value
CleanupModes == {"absent", "drop", "truncate", "purge"}

\* line 233: the truth value of step.get('cleanup_target')
HasCleanup(step) == step.cleanup_target \notin {"absent", ""}

\* mutant: every mode but 'drop' truncates
TruncateUnlessDrop(step) ==
    LET mode == IF step.cleanup_mode = "absent" THEN "drop" ELSE step.cleanup_mode
    IN  IF mode = "drop" THEN "drop_table" ELSE "truncate_table"

\* lines 234-238: the cleanup operation for the step's cleanup_mode
CleanupOp(step) ==
    LET mode == IF step.cleanup_mode = "absent" THEN "drop" ELSE step.cleanup_mode
    IN  IF mode = "truncate" THEN "truncate_table" ELSE "drop_table"

\* a call made by the loop body: the operation, its argument, the session
Call(op, arg, session) == [op |-> op, arg |-> arg, session |-> session]

\* what line 267 may measure for a handler, in seconds: up to the threshold
\* of line 273, and beyond it
StepDurations == {0, 5, 6}

\* mutant: a step that took exactly five seconds is announced too
AnnounceFromFive(notify, step_notify, duration) ==
    notify /\ (step_notify \/ duration >= 5)

\* line 273: notify and (step.get('notify') or duration > 5)
Announce(notify, step_notify, duration) ==
    notify /\ (step_notify \/ duration > 5)

\* the state at line 231: the step (step_notify is the truth value of its
\* notify key), the notify argument, current_session set by lines 212-229,
\* and no call made yet
InitStepRun ==
    step_run \in [pc : {"try"}, name : {1}, type : StepTypes,
                  cleanup_target : CleanupTargets, cleanup_mode : CleanupModes,
                  notify : BOOLEAN, step_notify : BOOLEAN, duration : {0},
                  session : {1}, calls : {<< >>},
                  cause : {"none"}, failed_step : {NoName}]

StepRunUnchanged == UNCHANGED <<engine, yaml, sql_step, reporter, explain>>

\* lines 232-238: the pre-flight cleanup
StepCleanup ==
    /\ step_run.pc = "try"
    /\ StepRunUnchanged
    /\ IF HasCleanup(step_run)
       THEN LET call == Call(CleanupOp(step_run), step_run.cleanup_target,
                             step_run.session)
            IN  \/ step_run' = [step_run EXCEPT
                       !.pc = "dispatch", !.calls = Append(@, call)]
                \/ \* truncate_table or drop_table raises
                   step_run' = [step_run EXCEPT
                       !.pc = "except", !.cause = "cleanup",
                       !.calls = Append(@, call)]
       ELSE step_run' = [step_run EXCEPT !.pc = "dispatch"]

\* lines 245-251 and 254-260: a python or manifest step commits and closes
\* the current session
StepBreak ==
    /\ step_run.pc = "dispatch"
    /\ step_run.type \in {"python", "manifest"}
    /\ StepRunUnchanged
    /\ \/ step_run' = [step_run EXCEPT
              !.pc = "handler",
              !.session = NoSession,
              !.calls = @ \o <<Call("commit", NoName, step_run.session),
                               Call("close", NoName, step_run.session)>>]
       \/ \* current_session.commit() raises
          step_run' = [step_run EXCEPT
              !.pc = "except", !.cause = "commit",
              !.calls = Append(@, Call("commit", NoName, step_run.session))]

\* lines 244, 253, 262: the handler of the step's type is called
StepHandler ==
    /\ \/ step_run.pc = "dispatch" /\ step_run.type \in {"sql", "plsql"}
       \/ step_run.pc = "handler"
    /\ StepRunUnchanged
    /\ LET call == Call("handler", step_run.name, step_run.session) IN
       \/ \* the handler returns; line 267 measures its duration
          \E duration \in StepDurations :
             step_run' = [step_run EXCEPT
                 !.pc = "post", !.calls = Append(@, call),
                 !.duration = duration]
       \/ \* the handler raises
          step_run' = [step_run EXCEPT
              !.pc = "except", !.cause = "handler", !.calls = Append(@, call)]

\* lines 263-265: a step of unknown type is skipped
StepSkip ==
    /\ step_run.pc = "dispatch"
    /\ step_run.type \notin {"sql", "plsql", "python", "manifest"}
    /\ StepRunUnchanged
    /\ step_run' = [step_run EXCEPT !.pc = "skipped"]

\* lines 267-279: record the step, mark it complete, announce it
StepPost ==
    /\ step_run.pc = "post"
    /\ StepRunUnchanged
    /\ LET recorded == Append(step_run.calls,
                              Call("append", step_run.name, NoSession))
           marked == Append(recorded,
                            Call("disable_step", step_run.name, NoSession))
       IN  \/ step_run' = [step_run EXCEPT
                  !.pc = "done",
                  !.calls = IF Announce(step_run.notify, step_run.step_notify,
                                        step_run.duration)
                            THEN Append(marked, Call("Step Completed",
                                                     step_run.name, NoSession))
                            ELSE marked]
           \/ \* yaml_manager.disable_step raises
              step_run' = [step_run EXCEPT
                  !.pc = "except", !.cause = "disable_step", !.calls = marked]

\* lines 281-296: the except clause
StepExcept ==
    /\ step_run.pc = "except"
    /\ StepRunUnchanged
    /\ LET undone == IF step_run.session # NoSession
                     THEN step_run.calls
                            \o <<Call("rollback", NoName, step_run.session),
                                 Call("close", NoName, step_run.session)>>
                     ELSE step_run.calls
       IN  step_run' = [step_run EXCEPT
               !.pc = "raised",
               !.session = NoSession,
               !.calls = IF step_run.notify
                         THEN Append(undone, Call("Step Failed", step_run.name,
                                                  NoSession))
                         ELSE undone,
               !.failed_step = step_run.name]

InitStep ==
    /\ EngineOff
    /\ yaml_file = << >>
    /\ yaml_call = [name |-> NoName, before |-> << >>]
    /\ sql_step = [pc |-> "off"]
    /\ tasks_data = << >>
    /\ metrics = << >>
    /\ ExplainIdle
    /\ InitStepRun

NextStep ==
    \/ StepCleanup
    \/ StepBreak
    \/ StepHandler
    \/ StepSkip
    \/ StepPost
    \/ StepExcept

SpecStep == InitStep /\ [][NextStep]_vars

----------------------------------------------------------------------------
(* Properties *)

KnownTypes == {"sql", "plsql", "python", "manifest"}

\* the names of the maximal run of consecutive steps of `queue` around step k
\* that share the transaction_group of step k
RunNames(queue, k) ==
    { queue[j].name : j \in { j \in 1..Len(queue) :
        \A m \in 1..Len(queue) :
            ((j <= m /\ m <= k) \/ (k <= m /\ m <= j))
                => queue[m].group = queue[k].group } }

\* the records of steps 1..k-1 of `queue`, in plan order
RecordsBefore(queue, k) ==
    [j \in 1..(k - 1) |-> [name |-> queue[j].name, group |-> queue[j].group]]

JobFailedAlerts == SelectSeq(alerts, LAMBDA a : a.subject = "Job Failed")

\* C1 (original statement): when step k fails in _run_steps, after the except
\* clause no effect of any step of the maximal run of consecutive steps sharing
\* k's transaction_group is committed.
C1_WholeGroupRolledBack ==
    [][(Running /\ Top.pc = "except")
        => RunNames(Top.queue, Top.i) \cap CommittedIn(sessions') = {}]_vars

\* C1 (amended): when step k fails, the except clause rolls back and closes the
\* session that is current, so no effect executed in that session is committed;
\* these effects belong to steps of k's run of equal transaction_group (the
\* ones executed since the last group change, python step or manifest step);
\* whatever was committed before the failure stays committed and nothing else
\* becomes committed.
C1_FailureRollsBackCurrentSession ==
    [][(Running /\ Top.pc = "except")
        => /\ CommittedIn(sessions') = Committed
           /\ Top.session # NoSession
                => /\ sessions'[Top.session].tx = "rolledback"
                   /\ ~sessions'[Top.session].open
                   /\ sessions[Top.session].eff \cap CommittedIn(sessions') = {}
                   /\ sessions[Top.session].eff \subseteq RunNames(Top.queue, Top.i)]_vars

\* C1 witness: a failure rolled back a session that held effects while an
\* earlier session with effects is committed.
C1_Witness ==
    /\ rpc = "exit1"
    /\ \E sid \in 1..Len(sessions) :
         sessions[sid].tx = "rolledback" /\ sessions[sid].eff # {}
    /\ Committed # {}

\* C2: for a plan whose steps all have a known type, whenever _run_steps is in
\* its except clause for step k (about to re-raise), the executed-step list
\* holds exactly the records of steps 1..k-1, in order, and none for step k.
C2_HistoryIsPrefixOnRaise ==
    \A d \in 1..Len(stack) :
        (/\ rpc = "steps"
         /\ stack[d].pc = "except"
         /\ \A j \in 1..Len(stack[d].queue) : stack[d].queue[j].type \in KnownTypes)
            => stack[d].executed = RecordsBefore(stack[d].queue, stack[d].i)

\* the number of maximal runs of consecutive steps with equal transaction_group,
\* every step without a group counting as a run of its own
RunCount(queue) ==
    Cardinality({ j \in 1..Len(queue) :
        j = 1 \/ queue[j].group = NoGroup \/ queue[j].group # queue[j - 1].group })

\* C3: for a plan made only of sql/plsql steps that ran to completion, the
\* number of sessions opened (all committed and closed) equals the number of
\* maximal runs of equal transaction_group, ungrouped steps counting one each.
C3_SessionsEqualRuns ==
    (/\ rpc = "report"
     /\ \A j \in 1..Len(execution_queue) : execution_queue[j].type \in {"sql", "plsql"})
        => /\ Len(sessions) = RunCount(execution_queue)
           /\ \A sid \in 1..Len(sessions) :
                sessions[sid].tx = "committed" /\ ~sessions[sid].open

\* C4: in every reachable state, nested plans and failure handling included,
\* at most one session opened by the engine is open.
C4_AtMostOneOpenSession == Cardinality(OpenSessions) <= 1

\* C4 witness: a nested plan is handling a failure, with its own session open,
\* after the parent's session was opened and closed.
C4_Witness ==
    /\ Len(stack) >= 2
    /\ Top.pc = "except"
    /\ Len(sessions) >= 2
    /\ Cardinality(OpenSessions) = 1

\* C5: when an ungrouped step fails, every earlier ungrouped sql step of the
\* plan that succeeded is already committed (so the rollback cannot undo it).
C5_UngroupedStepsIsolated ==
    (/\ Running
     /\ Top.pc = "except"
     /\ CurStep(Top).group = NoGroup)
        => \A j \in 1..(Top.i - 1) :
             (Top.queue[j].group = NoGroup /\ Top.queue[j].type \in {"sql", "plsql"})
                => Top.queue[j].name \in Committed

\* C6: in the retry loop of _execute_sql_step a wait follows each failed attempt
\* that is not the last, the waits are 5, 10, 20 (5 * 2^attempt, strictly
\* increasing), the error is raised only by the 4th attempt (retries + 1), and
\* no wait follows it.
C6_RetryBackoff ==
    [][(Running /\ Top.pc = "sql")
        => /\ tries <= 3
           /\ waits = SubSeq(<<5, 10, 20>>, 1, tries)
           /\ exc' # << >>
                => tries = 3 /\ tries' = 4 /\ waits' = <<5, 10, 20>>
           /\ (exc' = << >> /\ tries' = tries + 1)
                => waits' = SubSeq(<<5, 10, 20>>, 1, tries + 1)]_vars

\* C6 witness: execute_query failed four times and the error was raised.
C6_Witness ==
    /\ Running
    /\ Top.pc = "except"
    /\ tries = 4
    /\ waits = <<5, 10, 20>>

\* C7: when a run fails at step k, exactly one 'Job Failed' notification is
\* sent and its executed-tasks summary lists the steps completed before the
\* failure (it is empty, 'None', only when no step completed).
C7_FailureSummaryListsCompleted ==
    (rpc = "exit1" /\ exc # << >> /\ exc[1].origin # NoName)
        => /\ Len(JobFailedAlerts) = 1
           /\ JobFailedAlerts[1].summary =
                _format_steps_summary(SelectSeq(built, LAMBDA r : r.name \in done))

\* C8: the error that reaches run after a step failure carries as failed_step
\* the name of the innermost step whose try block was active when the error was
\* raised; no enclosing manifest step overwrites it, and 'Job Failed' reports it.
C8_InnermostFailedStep ==
    /\ (exc # << >> /\ rpc = "steps" /\ exc[1].failed_step # NoName)
            => exc[1].failed_step = exc[1].origin
    /\ (exc # << >> /\ rpc \in {"except", "exit1"} /\ exc[1].origin # NoName)
            => exc[1].failed_step = exc[1].origin
    /\ (exc # << >> /\ rpc = "exit1")
            => JobFailedAlerts[Len(JobFailedAlerts)].step = exc[1].origin

\* C8 witness: a step of a nested plan failed and the run reported that step.
C8_Witness ==
    /\ rpc = "exit1"
    /\ exc # << >>
    /\ exc[1].origin > 10
    /\ exc[1].failed_step = exc[1].origin

\* C9: while the script of a python step is about to start or is running, no
\* engine session is open: the step's frame has no current session and every
\* session handed out so far was committed and closed.
C9_NoSessionDuringScript ==
    (Running /\ Top.pc \in {"script", "running"})
        => /\ OpenSessions = {}
           /\ Top.session = NoSession
           /\ \A sid \in 1..Len(sessions) : sessions[sid].tx = "committed"

\* C9 witness: a script is running after a session that held effects was
\* committed and closed.
C9_Witness ==
    /\ Running
    /\ Top.pc = "running"
    /\ \E sid \in 1..Len(sessions) : sessions[sid].eff # {}

\* C10: a nested _run_steps call starts with no session open, and when control
\* returns from it to the parent (by return or by raise) every session is
\* closed.
C10_ChildSessionsClosed ==
    [][Running
        => /\ Len(stack') > Len(stack) => OpenIn(sessions') = {}
           /\ (Len(stack) >= 2 /\ Len(stack') < Len(stack))
                => OpenIn(sessions') = {}]_vars

----------------------------------------------------------------------------
(* Properties of Executor.run before the execution loop *)

\* load_manifest raised: run sent 'Orchestrator Failure' and exited
LoadFailed == alerts # << >> /\ alerts[1].subject = "Orchestrator Failure"

\* nothing of the execution loop has happened
Untouched ==
    /\ db = "none"
    /\ stack = << >>
    /\ sessions = << >>
    /\ done = {}
    /\ scripts = {}
    /\ executed_steps = << >>
    /\ built = << >>

\* C11: when the loaded manifest has no enabled step and enable_all is off,
\* run has returned normally: no DatabaseManager, no session, no step marked
\* complete, no notification, and the executed-step history is empty.
C11_NoEnabledStepsNoWork ==
    (/\ rpc # "load"
     /\ ~LoadFailed
     /\ ~cfg.enable_all
     /\ \A j \in 1..Len(all_steps) : all_steps[j].enabled = "false")
        => /\ rpc = "returned"
           /\ Untouched
           /\ alerts = << >>
           /\ execution_queue = << >>

\* C11 witness: a manifest whose steps are all disabled was loaded and run
\* has returned.
C11_Witness ==
    /\ rpc = "returned"
    /\ ~cfg.enable_all
    /\ Len(all_steps) >= 2
    /\ \A j \in 1..Len(all_steps) : all_steps[j].enabled = "false"

\* C12: with dry_run set, once the manifest is loaded run has returned
\* normally: the plan of a non-empty queue was printed, and there is no
\* DatabaseManager, no session, no step executed, cleaned up or marked
\* complete, no prompt and no notification.
C12_DryRunTouchesNothing ==
    (cfg.dry_run /\ rpc # "load" /\ ~LoadFailed)
        => /\ rpc = "returned"
           /\ Untouched
           /\ alerts = << >>
           /\ answer = "none"
           /\ execution_queue # << >> => plan_items = BuildPlan(execution_queue)

\* C12 witness: a dry run over a plan of two steps has returned.
C12_Witness ==
    /\ cfg.dry_run
    /\ rpc = "returned"
    /\ Len(execution_queue) = 2
    /\ Len(plan_items) >= 1

\* C13: when the operator declines at the prompt (force off), run exits with
\* code 0 and up to that exit there is no DatabaseManager, no session, no
\* 'Job Started' notification and no step executed or marked complete.
C13_DeclineExitsBeforeWork ==
    [][(rpc = "answered" /\ answer \in {"n", "no", ""})
        => /\ ~cfg.force
           /\ rpc' = "exit0"
           /\ db' = "none" /\ stack' = << >> /\ sessions' = << >>
           /\ done' = {} /\ scripts' = {}
           /\ executed_steps' = << >> /\ built' = << >>
           /\ alerts' = << >>]_vars

\* C13 witness: the operator typed an empty line and run exited with code 0.
C13_Witness ==
    /\ rpc = "exit0"
    /\ answer = ""
    /\ Untouched
    /\ alerts = << >>

----------------------------------------------------------------------------
(* Properties of the failure path of Executor.run *)

\* run has sent 'Job Failed' as its last notification
JobFailedSent ==
    alerts # << >> /\ alerts[Len(alerts)].subject = "Job Failed"

\* C14: whenever an error is in flight in the execution loop, run eventually
\* exits with code 1, and at that exit 'Job Failed' has been sent and the
\* DatabaseManager that was created is closed.
C14_FailedRunExits ==
    /\ []((rpc = "exit1" /\ exc # << >>)
            => (JobFailedSent /\ db # "created" /\ Len(JobFailedAlerts) = 1))
    /\ ((rpc = "steps" /\ exc # << >>)
            ~> (rpc = "exit1" /\ JobFailedSent /\ db = "closed"))

\* C14 witness: a step failed, 'Job Failed' was sent and the DatabaseManager
\* is closed at exit 1.
C14_Witness ==
    /\ rpc = "exit1"
    /\ exc # << >>
    /\ exc[1].origin # NoName
    /\ JobFailedSent
    /\ db = "closed"

----------------------------------------------------------------------------
(* Properties of YamlManager.disable_step *)

\* C15: after disable_step(name), (1) if the first step of that name was
\* already enabled: false, or no step has the name, the file is unchanged;
\* (2) calling it again with the same name leaves the file as it is (twice
\* equals once); (3) no step of another name is changed; (4) the step it
\* changes ends with enabled: false.
C15_DisableStepIdempotent ==
    yaml_call.name # NoName =>
        LET before == yaml_call.before
            name == yaml_call.name
            j == FirstNamed(before, name)
        IN  /\ Len(yaml_file) = Len(before)
            /\ (j = 0 \/ (j > 0 /\ before[j].enabled = "false"))
                    => yaml_file = before
            /\ disable_step(yaml_file, name) = yaml_file
            /\ \A k \in 1..Len(before) :
                    before[k].name # name => yaml_file[k] = before[k]
            /\ j > 0 => yaml_file[j].enabled = "false"

\* C15 witness: disable_step was called on a step that was already disabled
\* (enabled: false with its Done comment), while another step of the file is
\* still enabled.
C15_Witness ==
    /\ yaml_call.name \in YamlNames
    /\ FirstNamed(yaml_call.before, yaml_call.name) > 0
    /\ yaml_call.before[FirstNamed(yaml_call.before, yaml_call.name)]
            = [name |-> yaml_call.name, enabled |-> "false", comment |-> TRUE]
    /\ \E k \in 1..Len(yaml_file) : yaml_file[k].enabled = "true"

----------------------------------------------------------------------------
(* Properties of Executor._execute_sql_step *)

\* the profiling operations the handler calls
ProfilingOps ==
    {"prepare_query"} \cup {CaptureOps[k] : k \in 1..Len(CaptureOps)}

\* C16: a failure raised by a profiling operation (prepare_query,
\* post_execution_capture, get_metrics, get_plan_content, add_task_result)
\* never fails the step and never causes a retry: no error that leaves
\* _execute_sql_step, and no pass through the retry clause, is caused by one.
C16_ProfilingNeverFailsStep ==
    sql_step.pc \in {"raised", "failed"} => sql_step.cause \notin ProfilingOps

----------------------------------------------------------------------------
(* Properties of Reporter.add_task_result *)

\* the entry of the last add_task_result call
LastEntry == tasks_data[Len(tasks_data)]

\* C17: when db_cpu_ms + db_io_ms > 0 the bottleneck is 'I/O' exactly when
\* db_io_ms > db_cpu_ms and 'CPU' otherwise (the tie included), whatever
\* io_requests and cache_hits are.
C17_BottleneckByTime ==
    (tasks_data # << >> /\ Get(metrics, "db_cpu_ms") + Get(metrics, "db_io_ms") > 0)
        => LastEntry.bottleneck =
              IF Get(metrics, "db_io_ms") > Get(metrics, "db_cpu_ms")
              THEN "I/O" ELSE "CPU"

\* C17 witness: a tie of cpu and io time was classified 'CPU' although reads
\* outnumber cache hits.
C17_Witness ==
    /\ tasks_data # << >>
    /\ Get(metrics, "db_cpu_ms") = Get(metrics, "db_io_ms")
    /\ Get(metrics, "db_io_ms") > 0
    /\ Get(metrics, "io_requests") > Get(metrics, "cache_hits")
    /\ LastEntry.bottleneck = "CPU"

\* C18: when db_cpu_ms + db_io_ms = 0 and io_requests and cache_hits are both
\* given (io_requests = 0 with cache_hits > 0 included), the bottleneck is
\* 'I/O' exactly when io_requests exceeds half of io_requests + cache_hits
\* and 'CPU' otherwise; it is 'Unknown' only when they are not both given.
C18_BottleneckByBlocks ==
    (tasks_data # << >> /\ Get(metrics, "db_cpu_ms") + Get(metrics, "db_io_ms") = 0)
        => /\ {"io_requests", "cache_hits"} \subseteq DOMAIN metrics
                => LastEntry.bottleneck =
                      IF 2 * metrics["io_requests"]
                            > metrics["io_requests"] + metrics["cache_hits"]
                      THEN "I/O" ELSE "CPU"
           /\ LastEntry.bottleneck = "Unknown"
                => ~({"io_requests", "cache_hits"} \subseteq DOMAIN metrics)

----------------------------------------------------------------------------
(* Properties of PostgresExplainProfiler *)

\* the sum of the attributes `keys` over the nodes i..Len(tree)
RECURSIVE SumOfNodes(_, _, _)
SumOfNodes(tree, keys, i) ==
    IF i > Len(tree) THEN 0
    ELSE LET a == tree[i].attrs
             RECURSIVE SumKeys(_)
             SumKeys(K) == IF K = {} THEN 0
                           ELSE LET k == CHOOSE x \in K : TRUE
                                IN  Get(a, k) + SumKeys(K \ {k})
         IN  SumKeys(keys) + SumOfNodes(tree, keys, i + 1)

GatherNodes(tree) == {i \in 1..Len(tree) : tree[i].type = "Gather"}

\* C19: after a fresh profiler captured a plan tree, get_metrics (the metrics
\* dict) has io_requests = the sum over all nodes of the three Read Blocks
\* attributes, cache_hits = the sum of the two Hit Blocks attributes,
\* db_io_ms = the sum of I/O Read Time and I/O Write Time, duration_ms = the
\* root's Execution Time, and parallel_degree = the largest Workers Launched
\* of the Gather nodes (the key is absent when the tree has no Gather node).
C19_MetricsAreTreeSums ==
    (profiler.captured /\ rows # << >>)
        => LET m == profiler.metrics
               tree == rows[1].plan
               G == GatherNodes(tree)
           IN  /\ {"io_requests", "cache_hits", "db_io_ms", "duration_ms"}
                     \subseteq DOMAIN m
               /\ m["io_requests"] = SumOfNodes(tree, ReadKeys, 1)
               /\ m["cache_hits"] = SumOfNodes(tree, HitKeys, 1)
               /\ m["db_io_ms"] = SumOfNodes(tree, TimeKeys, 1)
               /\ m["duration_ms"] = rows[1].exec_time
               /\ ("parallel_degree" \in DOMAIN m) = (G # {})
               /\ G # {} =>
                    /\ \E i \in G :
                         m["parallel_degree"] = Get(tree[i].attrs, "Workers Launched")
                    /\ \A i \in G :
                         m["parallel_degree"] >= Get(tree[i].attrs, "Workers Launched")

\* C19 witness: a captured tree whose child is a Gather node with workers,
\* below a root that is no Gather node and has read blocks.
C19_Witness ==
    /\ profiler.captured
    /\ rows # << >>
    /\ Len(rows[1].plan) = 2
    /\ rows[1].plan[1].type # "Gather"
    /\ rows[1].plan[2].type = "Gather"
    /\ rows[1].exec_time > 0
    /\ profiler.metrics["parallel_degree"] >= 1
    /\ profiler.metrics["io_requests"] >= 1

----------------------------------------------------------------------------
(* Properties of the abort of a plan *)

\* the names of the steps that were cleaned up or executed in a session,
\* started as a script, recorded in a history or marked complete
Touched(stk, ss, dn, sc) ==
    dn \cup sc
       \cup UNION {ss[sid].eff : sid \in 1..Len(ss)}
       \cup UNION {{stk[d].executed[r].name : r \in 1..Len(stk[d].executed)}
                   : d \in 1..Len(stk)}

\* a step and the manifest steps that enclose it, by StepName
Enclosing(name) == {name, name \div 10, name \div 100, name \div 1000} \ {0}

\* no step after the current one, in any plan on the call stack, is touched,
\* nor is any step of a plan nested in such a step
LaterStepsUntouched(stk, ss, dn, sc) ==
    \A d \in 1..Len(stk) : \A j \in (stk[d].i + 1)..Len(stk[d].queue) :
        \A x \in Touched(stk, ss, dn, sc) : stk[d].queue[j].name \notin Enclosing(x)

\* C20: the steps after the current step of every plan on the call stack are
\* untouched (not cleaned up, dispatched, recorded or marked complete), and
\* once an error is in flight every step of the engine only unwinds: a frame
\* is left, no plan advances, nothing is executed, recorded, marked complete
\* or loaded, and no session is opened.
C20_FailureAbortsPlan ==
    [][rpc = "steps"
        => /\ LaterStepsUntouched(stack, sessions, done, scripts)
           /\ LaterStepsUntouched(stack', sessions', done', scripts')
           /\ exc # << >>
                => /\ Top.pc = "except"
                   /\ Len(stack') = Len(stack) - 1
                   /\ \A d \in 1..Len(stack') :
                        /\ stack'[d].i = stack[d].i
                        /\ stack'[d].executed = stack[d].executed
                        /\ stack'[d].pc \in {"wait", "except"}
                   /\ stack' # << >> => stack'[Len(stack')].pc = "except"
                   /\ done' = done /\ scripts' = scripts /\ loaded' = loaded
                   /\ Len(sessions') = Len(sessions)
                   /\ \A sid \in 1..Len(sessions) :
                        sessions'[sid].eff = sessions[sid].eff]_vars

\* C20 witness: the first step of a plan of two failed after it was cleaned
\* up, the run ended, and the second step was never touched.
C20_Witness ==
    /\ rpc = "exit1"
    /\ Len(execution_queue) = 2
    /\ exc # << >>
    /\ exc[1].failed_step = execution_queue[1].name
    /\ execution_queue[1].name \in Touched(stack, sessions, done, scripts)
    /\ \A x \in Touched(stack, sessions, done, scripts) :
            execution_queue[2].name \notin Enclosing(x)

----------------------------------------------------------------------------
(* Properties of the errors that leave _run_steps *)

\* C21: whenever an error leaves a _run_steps call, the session that was
\* current in that call has been rolled back and closed, no session is open,
\* and the error carries as failed_step the name of a step of the plan of
\* this call or of a plan nested in it.
C21_EscapingErrorRolledBack ==
    [][(Running /\ exc' # << >> /\ Len(stack') < Len(stack))
        => /\ OpenIn(sessions') = {}
           /\ Top.session # NoSession
                => sessions'[Top.session].tx = "rolledback"
           /\ exc'[1].failed_step # NoName
           /\ \E j \in 1..Len(Top.queue) :
                Top.queue[j].name \in Enclosing(exc'[1].failed_step)]_vars

----------------------------------------------------------------------------
(* Properties of marking steps complete *)

\* the step names that disable_step calls marked complete
MarkedNames(mk) == {mk[r].name : r \in 1..Len(mk)}

\* how often `name` was marked complete on the YamlManager `store`
TimesMarked(mk, store, name) ==
    Cardinality({r \in 1..Len(mk) : mk[r].store = store /\ mk[r].name = name})

\* the YamlManager of the manifest that the plan of frame d was loaded from
StoreOf(stk, d) ==
    IF d = 1 THEN RootManifest ELSE stk[d - 1].queue[stk[d - 1].i].name

\* the current step of every plan on the call stack and the steps after it
\* are not marked complete; every step recorded in a history is marked exactly
\* once, on the YamlManager of its own plan, except the step whose
\* disable_step call has just raised; a failed step is not marked complete;
\* after a normal return the marks on the root manifest are the history
C22_State ==
    /\ \A d \in 1..Len(stack) :
         /\ \A j \in stack[d].i..Len(stack[d].queue) :
                stack[d].queue[j].name \notin MarkedNames(marks)
         /\ \A r \in 1..Len(stack[d].executed) :
                \/ /\ stack[d].pc = "except"
                   /\ r = Len(stack[d].executed)
                   /\ stack[d].executed[r].name = CurStep(stack[d]).name
                \/ /\ TimesMarked(marks, StoreOf(stack, d), stack[d].executed[r].name) = 1
                   /\ Cardinality({x \in 1..Len(marks) :
                            marks[x].name = stack[d].executed[r].name}) = 1
    /\ (exc # << >> /\ exc[1].failed_step # NoName)
            => exc[1].failed_step \notin MarkedNames(marks)
    /\ rpc = "report"
            => [r \in 1..Len(built) |-> built[r].name]
                 = [r \in 1..Len(built) |->
                        SelectSeq(marks, LAMBDA x : x.store = RootManifest)[r].name]

\* a step is marked complete only when its handler has returned, together
\* with the append of its history record, on the YamlManager of its plan, and
\* it was not marked before
C22_Step ==
    marks' # marks
        => /\ Running /\ Top.pc = "post"
           /\ exc = << >> /\ exc' = << >>
           /\ marks' = Append(marks, [store |-> StoreOf(stack, Len(stack)),
                                      name  |-> CurStep(Top).name])
           /\ CurStep(Top).name \notin MarkedNames(marks)
           /\ stack'[Len(stack)].executed =
                Append(Top.executed, [name  |-> CurStep(Top).name,
                                      group |-> CurStep(Top).group])

\* C22: a step is marked complete (disable_step) only after its handler
\* returned and its history record was appended, exactly once per step that
\* completed, on the manifest store of the plan the step belongs to; a failing
\* step and the steps after it are never marked complete.
C22_MarkedOnlyAfterSuccess == []C22_State /\ [][C22_Step]_vars

\* C22 witness: a run returned normally after a step of a nested plan was
\* marked on the child manifest and the manifest step on the root manifest.
C22_Witness ==
    /\ rpc = "report"
    /\ Len(marks) = 2
    /\ marks[1].store # RootManifest
    /\ marks[2].store = RootManifest

\* C23: when a run has ended (normally or by failure), every effect in the
\* database of a step that is marked complete is committed.
C23_MarkedStepsCommitted ==
    rpc \in {"report", "returned", "exit1"}
        => \A sid \in 1..Len(sessions) :
             sessions[sid].eff \cap MarkedNames(marks) # {}
                => sessions[sid].tx = "committed"

----------------------------------------------------------------------------
(* Properties of the sessions at the end of _run_steps *)

\* C24: when a _run_steps call returns normally, the session that was current
\* after its last step is committed and closed by the return, and every
\* session opened so far is committed and closed; none was rolled back.
C24_NormalReturnCommitsAll ==
    [][(Running /\ Len(stack') < Len(stack) /\ exc' = << >>)
        => /\ Top.i > Len(Top.queue)
           /\ Top.session # NoSession
                => /\ sessions[Top.session].open
                   /\ sessions[Top.session].tx = "active"
                   /\ sessions'[Top.session].tx = "committed"
           /\ \A sid \in 1..Len(sessions') :
                sessions'[sid].tx = "committed" /\ ~sessions'[sid].open
           /\ Len(stack) = 1 => executed_steps' = Top.executed]_vars

\* C24 witness: the root call returned its history after two sessions, the
\* last one holding effects of the last step.
C24_Witness ==
    /\ rpc = "report"
    /\ Len(sessions) = 2
    /\ Len(executed_steps) = 2
    /\ executed_steps[2].name \in sessions[2].eff

\* C25: whenever a _run_steps call ends, by return or by raise, whichever
\* collaborator call failed, no session is open.
C25_NoSessionLeftOpen ==
    [][(Running /\ Len(stack') < Len(stack)) => OpenIn(sessions') = {}]_vars

----------------------------------------------------------------------------
(* Properties of the attempts of one SQL step *)

\* the statement text that the step's file, params and dialect give
ExpectedSql ==
    prepare_query(ProfilerFor(sql_step.dialect),
                  render_template(sql_step.file, sql_step.params))

\* C26: once _execute_sql_step has called execute_query, the file was read and
\* the template rendered exactly once, prepare_query was applied exactly once
\* (when there is a profiler), and every attempt so far was made with the same
\* statement text, the one prepared before the first attempt, on the session
\* the handler was given.
C26_RetriesReuseStatement ==
    (sql_step.pc # "off" /\ Len(sql_step.calls) >= 1)
        => /\ sql_step.reads = 1
           /\ sql_step.renders = 1
           /\ sql_step.prepared = IF sql_step.profiler # "None" THEN 1 ELSE 0
           /\ Len(sql_step.calls) =
                IF sql_step.pc = "execute" THEN sql_step.attempt
                ELSE sql_step.attempt + 1
           /\ \A k \in 1..Len(sql_step.calls) :
                /\ sql_step.calls[k].sql = ExpectedSql
                /\ sql_step.calls[k].session = sql_step.session

\* C26 witness: a Postgres step with params succeeded at its third attempt.
C26_Witness ==
    /\ sql_step.pc = "returned"
    /\ sql_step.dialect = "postgresql+psycopg2"
    /\ sql_step.params
    /\ Len(sql_step.calls) = 3
    /\ sql_step.calls[3].sql[1] = "EXPLAIN"

\* C27: within one SQL step execute_query returns successfully at most once:
\* after it has returned, no later failure of the attempt makes the handler
\* execute the statement again.
C27_StatementSucceedsAtMostOnce ==
    sql_step.pc # "off"
        => /\ sql_step.succeeded <= 1
           /\ \A k \in 1..(Len(sql_step.calls) - 1) : ~sql_step.calls[k].returned

----------------------------------------------------------------------------
(* Properties of the pre-flight cleanup *)

\* the positions of the cleanup calls among the calls of the pass
CleanupCalls ==
    {k \in 1..Len(step_run.calls) :
        step_run.calls[k].op \in {"truncate_table", "drop_table"}}

\* C28: a step with a cleanup_target is cleaned up exactly once, as the first
\* call of its pass (before the handler and before any commit), in the session
\* current for the step, by truncate_table iff cleanup_mode is 'truncate' and
\* by drop_table otherwise; a step without one is never cleaned up; when the
\* cleanup raises, the handler is not called, the session is rolled back and
\* closed and the error carries the step's name.
C28_CleanupOnceBeforeHandler ==
    step_run.pc \notin {"off", "try"}
        => /\ step_run.cleanup_target \in {"absent", ""} => CleanupCalls = {}
           /\ step_run.cleanup_target = "T"
                => /\ CleanupCalls = {1}
                   /\ step_run.calls[1] =
                        [op |-> IF step_run.cleanup_mode = "truncate"
                                THEN "truncate_table" ELSE "drop_table",
                         arg |-> "T", session |-> 1]
           /\ step_run.cause = "cleanup"
                => /\ \A k \in 1..Len(step_run.calls) :
                        step_run.calls[k].op \notin {"handler", "commit", "disable_step"}
                   /\ step_run.pc \in {"except", "raised"}
                   /\ step_run.pc = "raised"
                        => /\ SubSeq(step_run.calls, 2, 3) =
                                <<Call("rollback", NoName, 1), Call("close", NoName, 1)>>
                           /\ step_run.failed_step = step_run.name

\* C28 witness: the truncate of a step's table raised and the pass ended by
\* raising.
C28_Witness ==
    /\ step_run.pc = "raised"
    /\ step_run.cause = "cleanup"
    /\ step_run.cleanup_mode = "truncate"
    /\ step_run.calls[1].op = "truncate_table"

----------------------------------------------------------------------------
(* Properties of the notifications of nested plans *)

\* the 'Step Completed' and 'Step Failed' events sent so far
StepEvents(al, subject) == SelectSeq(al, LAMBDA a : a.subject = subject)

\* the names of the steps of the root plan
RootNames == {execution_queue[j].name : j \in 1..Len(execution_queue)}

\* C29: while a nested plan runs, at any depth, no event is emitted; every
\* 'Step Completed' and 'Step Failed' event names a step of the root plan;
\* when a manifest step of the root plan fails, whatever failed inside its
\* nested plan, one 'Step Failed' event is sent, naming that manifest step,
\* and it is the only one of the run; no step gets more than one
\* 'Step Completed' event.
C29_NestedPlansAreSilent ==
    [][Running
        => /\ Len(stack) >= 2 => alerts' = alerts
           /\ \A k \in 1..Len(alerts') :
                alerts'[k].subject \in {"Step Completed", "Step Failed"}
                    => alerts'[k].step \in RootNames
           /\ (Len(stack) = 1 /\ Top.pc = "except" /\ CurStep(Top).type = "manifest")
                => StepEvents(alerts', "Step Failed")
                     = <<Alert("Step Failed", CurStep(Top).name, << >>)>>
           /\ \A j, k \in 1..Len(alerts') :
                (/\ alerts'[j].subject = "Step Completed"
                 /\ alerts'[k].subject = "Step Completed"
                 /\ alerts'[j].step = alerts'[k].step) => j = k]_vars

\* C29 witness: a step of a nested plan failed and the run ended with one
\* 'Step Failed' event, for the manifest step of the root plan.
C29_Witness ==
    /\ rpc = "exit1"
    /\ exc # << >>
    /\ exc[1].failed_step > 10
    /\ Len(StepEvents(alerts, "Step Failed")) = 1
    /\ StepEvents(alerts, "Step Failed")[1].step = exc[1].failed_step \div 10

----------------------------------------------------------------------------
(* Properties of script steps *)

\* C30: a script is started only for a step whose script was not started
\* before in this pass and ends at most once; a missing script file raises
\* without the script being started, and a non-zero exit code raises: either
\* way the step goes to its except clause at once; once an error is in
\* flight no script is started and none ends (nothing is retried, the run
\* only unwinds).
C30_ScriptRunsOnceAndFailureIsFatal ==
    [][Running
        => /\ (Top.pc = "script" /\ exc' = << >>)
                => /\ CurStep(Top).name \notin scripts
                   /\ scripts' = scripts \cup {CurStep(Top).name}
           /\ (Top.pc = "script" /\ exc' # << >>)
                => /\ scripts' = scripts
                   /\ stack'[Len(stack)].pc = "except"
           /\ exits' # exits
                => /\ Top.pc = "running"
                   /\ \E returncode \in ExitCodes :
                        /\ exits' = Append(exits, [name |-> CurStep(Top).name,
                                                   returncode |-> returncode])
                        /\ returncode # 0
                            => (exc' # << >> /\ stack'[Len(stack)].pc = "except")
                        /\ returncode = 0
                            => (exc' = << >> /\ stack'[Len(stack)].pc = "post")
                   /\ \A k \in 1..Len(exits) : exits[k].name # CurStep(Top).name
           /\ Top.pc \notin {"script", "running"}
                => (scripts' = scripts /\ exits' = exits)
           /\ exc # << >>
                => /\ scripts' = scripts /\ exits' = exits
                   /\ Len(stack') < Len(stack)]_vars

\* C30 witness: the script of the first of two steps ended with a non-zero
\* exit code and the run failed without touching the second step.
C30_Witness ==
    /\ rpc = "exit1"
    /\ Len(execution_queue) = 2
    /\ exits = <<[name |-> 1, returncode |-> 1]>>
    /\ scripts = {1}
    /\ exc # << >> /\ exc[1].failed_step = 1
    /\ done = {}

----------------------------------------------------------------------------
(* Properties of the order of dispatch *)

\* the steps of a manifest that are enabled: enabled true or no enabled field
EnabledSteps(steps) ==
    SelectSeq(steps, LAMBDA s : s.enabled \in {"true", "absent"})

\* C31: the plan of a pass is the enabled steps of the manifest in manifest
\* order (all steps with enable_all), a step without an enabled field being
\* enabled; the root call runs this plan; every plan on the call stack is
\* walked one step at a time in order (only the innermost call moves, its
\* index grows by one, and only after the step was dispatched), and a call
\* returns only past its last step; without enable_all no plan holds a step
\* with enabled false and no such step of the manifest is ever touched.
C31_DispatchesEnabledStepsInOrder ==
    [][rpc # "load"
        => /\ execution_queue =
                IF cfg.enable_all THEN all_steps ELSE EnabledSteps(all_steps)
           /\ ~cfg.enable_all
                => \A j \in 1..Len(all_steps) :
                     all_steps[j].enabled = "false"
                        => \A x \in Touched(stack', sessions', done', scripts') :
                                all_steps[j].name \notin Enclosing(x)
           /\ Running
                => /\ stack[1].queue = execution_queue
                   /\ \A d \in 1..Len(stack) : \A j \in 1..Len(stack[d].queue) :
                        cfg.enable_all \/ stack[d].queue[j].enabled # "false"
                   /\ \A d \in 1..Len(stack) :
                        d <= Len(stack')
                            => /\ stack'[d].queue = stack[d].queue
                               /\ stack'[d].i \in {stack[d].i, stack[d].i + 1}
                               /\ stack'[d].i = stack[d].i + 1
                                    => /\ d = Len(stack)
                                       /\ stack[d].pc \in {"dispatch", "post"}
                   /\ (Len(stack') < Len(stack) /\ exc' = << >>)
                        => Top.i = Len(Top.queue) + 1]_vars

\* C31 witness: of a manifest of two steps, the first with enabled false and
\* the second without an enabled field, the pass ran the second only.
C31_Witness ==
    /\ rpc = "report"
    /\ ~cfg.enable_all
    /\ Len(all_steps) = 2
    /\ all_steps[1].enabled = "false"
    /\ all_steps[2].enabled = "absent"
    /\ Len(executed_steps) = 1
    /\ executed_steps[1].name = 2
    /\ done = {2}

----------------------------------------------------------------------------
(* Properties of the report entries of a SQL step *)

\* C32: the metrics handed to the Reporter for a profiled SQL step have
\* duration_ms equal to the strategy's value when that is non-zero, and else
\* equal to the wall-clock time of the one execute_query call that returned,
\* without the failed attempts and the backoff waits before it.
C32_DurationBackfilledFromLastAttempt ==
    (sql_step.pc = "returned" /\ sql_step.entries = 1) =>
        LET last == sql_step.calls[Len(sql_step.calls)]
            reported == Get(sql_step.strategy, "duration_ms")
        IN  /\ last.returned
            /\ "duration_ms" \in DOMAIN metrics
            /\ metrics["duration_ms"] =
                   IF reported # 0 THEN reported ELSE last.took

\* a profiled step whose statement returned at the second attempt and whose
\* strategy reported no duration
C32_Witness ==
    /\ sql_step.pc = "returned"
    /\ sql_step.entries = 1
    /\ sql_step.attempt = 1
    /\ sql_step.slept = <<5>>
    /\ sql_step.strategy = << >>
    /\ metrics = [duration_ms |-> 2]

\* the entries of tasks_data that were there before the step
EarlierEntries == SubSeq(tasks_data, 1, sql_step.earlier)

\* C33: a SQL step adds at most one entry to Reporter.tasks_data: exactly
\* one when it returns with a profiler whose capture succeeded, none when it
\* raises or while it retries; tasks_data only grows by appending, and the
\* plan file of the n-th entry, when one was written, is numbered n.
C33_State ==
    /\ sql_step.entries <= 1
    /\ Len(tasks_data) = sql_step.earlier + sql_step.entries
    /\ sql_step.pc # "returned" => sql_step.entries = 0
    /\ (sql_step.pc = "returned" /\ sql_step.succeeded > 0) =>
          (sql_step.entries = 1 <=>
              (sql_step.profiler # "None" /\ sql_step.swallowed = "none"))
    /\ \A n \in 1..Len(tasks_data) : tasks_data[n].plan_file \in {0, n}

C33_Step ==
    tasks_data' # tasks_data =>
        /\ Len(tasks_data') = Len(tasks_data) + 1
        /\ SubSeq(tasks_data', 1, Len(tasks_data)) = tasks_data
        /\ sql_step.pc = "capture"
        /\ sql_step.calls[Len(sql_step.calls)].returned

----------------------------------------------------------------------------
(* Properties of the events of one step *)

\* the positions in the calls of the loop body where `op` was called
CallsOf(op) ==
    { k \in 1..Len(step_run.calls) : step_run.calls[k].op = op }

\* C34: with notify on, a step whose try block completes is announced by one
\* 'Step Completed' event exactly when its notify key is set or it took more
\* than 5 seconds, and then after disable_step was called for it; a step
\* whose try block raises gets one 'Step Failed' event and no 'Step
\* Completed'; no event is sent before either outcome.
C34_StepEvents ==
    step_run.notify =>
        /\ step_run.pc = "done" =>
              /\ CallsOf("Step Failed") = {}
              /\ (CallsOf("Step Completed") # {}) <=>
                     (step_run.step_notify \/ step_run.duration > 5)
        /\ \A k \in CallsOf("Step Completed") :
              /\ k = Len(step_run.calls)
              /\ step_run.pc = "done"
              /\ \E j \in CallsOf("disable_step") : j < k
        /\ step_run.pc = "raised" =>
              /\ Cardinality(CallsOf("Step Failed")) = 1
              /\ CallsOf("Step Completed") = {}
        /\ step_run.pc \notin {"done", "raised"} =>
              CallsOf("Step Failed") \cup CallsOf("Step Completed") = {}

\* a step without the notify key that took six seconds was marked complete and
\* then announced
C34_Witness ==
    /\ step_run.pc = "done"
    /\ step_run.notify
    /\ ~step_run.step_notify
    /\ step_run.duration = 6
    /\ step_run.calls[Len(step_run.calls)].op = "Step Completed"
    /\ step_run.calls[Len(step_run.calls) - 1].op = "disable_step"

----------------------------------------------------------------------------
(* Properties of the life of a session *)

\* every current_session reference of a _run_steps call is an open session
C35_ReferencesOpen ==
    \A k \in 1..Len(stack) :
        stack[k].session # NoSession => stack[k].session \in OpenIn(sessions)

\* an operation on a session is made through the current reference, on an
\* open session, and ends its transaction at most once
C35_Step ==
    \A sid \in 1..Len(sessions) :
        sessions'[sid] # sessions[sid] =>
            /\ sessions[sid].open
            /\ Running /\ Top.session = sid
            /\ sessions'[sid].tx # sessions[sid].tx => sessions[sid].tx = "active"

\* no operation is made on a closed session
C35_NoUseAfterClose == []C35_ReferencesOpen /\ [][C35_Step]_vars

\* when run has left _run_steps, every session handed out was closed
C35_AllClosed ==
    rpc \in {"report", "except", "returned", "exit1"} => OpenIn(sessions) = {}

\* C35: the engine makes no operation on a session it has closed (each
\* current_session reference is cleared at the close), each session is
\* committed or rolled back at most once, and each is closed once.
C35_SessionsClosedOnce == C35_NoUseAfterClose /\ []C35_AllClosed

----------------------------------------------------------------------------
(* Properties of a step of unknown type *)

\* the innermost _run_steps call is inside the try block of a step whose type
\* is none of sql, plsql, python, manifest
InUnknownStep ==
    /\ Running
    /\ Top.pc \in {"try", "dispatch", "except"}
    /\ CurStep(Top).type \notin KnownTypes

\* the type test of lines 243-265 passes over the step: nothing is recorded,
\* marked or announced and the loop goes on with the next step
C36_SkippedAtDispatch ==
    [][(InUnknownStep /\ Top.pc = "dispatch") =>
          /\ stack' = SetTop([Top EXCEPT !.i = @ + 1, !.pc = "loop"])
          /\ UNCHANGED <<alerts, marks, done, exc, rpc, sessions>>]_vars

\* C36: the try block of a step of unknown type raises nothing, records
\* nothing in executed_steps, marks nothing complete, sends no notification,
\* and leaves the loop at the next step.
C36_UnknownTypeSkipped ==
    [][InUnknownStep =>
          /\ UNCHANGED <<alerts, marks, done, exc, rpc>>
          /\ Len(stack') = Len(stack)
          /\ stack'[Len(stack)].executed = Top.executed
          /\ stack'[Len(stack)].pc \in {"dispatch", "loop"}
          /\ stack'[Len(stack)].pc = "loop" =>
                stack'[Len(stack)].i = Top.i + 1]_vars

----------------------------------------------------------------------------
(* Properties of the executed-step history *)

\* the steps of `queue` that have a known type, in plan order
KnownSteps(queue) == SelectSeq(queue, LAMBDA s : s.type \in KnownTypes)

\* one record, with name and transaction_group, per known-type step of `queue`
HistoryOf(queue) ==
    [j \in 1..Len(KnownSteps(queue)) |->
        [name |-> KnownSteps(queue)[j].name, group |-> KnownSteps(queue)[j].group]]

\* C37: between two steps of a _run_steps call, and so at its return after
\* the last one, the history holds one record, with name and
\* transaction_group, per known-type step of the call's own plan passed so
\* far, in plan order, and nothing of a nested plan; the history run receives
\* from a pass that returned is that of all known-type steps of its plan.
C37_HistoryIsOwnKnownSteps ==
    /\ \A d \in 1..Len(stack) :
          stack[d].pc = "loop" =>
              stack[d].executed =
                  HistoryOf(SubSeq(stack[d].queue, 1, stack[d].i - 1))
    /\ rpc = "report" => executed_steps = HistoryOf(execution_queue)

\* a pass that ran a nested plan returned only the record of its manifest
\* step, with the step's transaction_group
C37_Witness ==
    /\ rpc = "report"
    /\ \E n \in done : n > 10
    /\ Len(executed_steps) = 1
    /\ executed_steps[1].name = execution_queue[1].name
    /\ executed_steps[1].group = 2
    /\ execution_queue[1].type = "manifest"

----------------------------------------------------------------------------
(* Properties of the confirmation prompt *)

\* run is before line 139: loading, at the prompt, or holding an answer
BeforeStart == rpc \in {"load", "confirm", "answered"}

JobStartedAlerts == SelectSeq(alerts, LAMBDA a : a.subject = "Job Started")

\* C38: with force and dry_run off, up to the operator's answer nothing is
\* executed, no session is opened and 'Job Started' is not sent; run goes on
\* to line 139 only from the answer 'y' or 'yes' (lowercased and stripped);
\* 'n', 'no' and the empty answer make it exit with code 0, and any other
\* answer brings the prompt back.
C38_State ==
    (~cfg.force /\ ~cfg.dry_run) =>
        /\ (BeforeStart \/ rpc = "exit0") =>
              (Untouched /\ JobStartedAlerts = << >>)
        /\ rpc = "answered" =>
              answer \in {LowerStrip(raw) : raw \in Responses}

C38_Step ==
    (~cfg.force /\ ~cfg.dry_run /\ BeforeStart) =>
        /\ rpc' \notin {"steps", "report", "except"}
        /\ rpc' = "start" =>
              (rpc = "answered" /\ answer \in {"y", "yes"})
        /\ rpc = "answered" =>
              rpc' = IF answer \in {"y", "yes"} THEN "start"
                     ELSE IF answer \in {"n", "no", ""} THEN "exit0"
                     ELSE "confirm"

C38_NoWorkWithoutConsent == []C38_State /\ [][C38_Step]_vars

\* the operator typed something else and is at the prompt again, with nothing
\* done
C38_Witness ==
    /\ rpc = "confirm"
    /\ answer = "maybe"
    /\ ~cfg.force /\ ~cfg.dry_run
    /\ Untouched
    /\ alerts = << >>

----------------------------------------------------------------------------
(* Termination *)

\* the execute attempts of the SQL step in hand: `tries` failed ones, and one
\* more when the retry loop is about to call execute_query
AttemptsMade ==
    IF Running /\ Top.pc = "sql" THEN tries + 1 ELSE tries

\* C39: every _run_steps call, the root one and each nested one (the plans
\* are finite trees of manifests), ends by return or by raise when every
\* collaborator call returns or raises, and no SQL step makes more than
\* retries + 1 = 4 execute attempts.
C39_PassTerminates ==
    /\ [](AttemptsMade <= retries + 1)
    /\ \A d \in 1..(MaxDepth + 1) :
          (rpc = "steps" /\ Len(stack) >= d) ~> (Len(stack) < d)
    /\ (rpc = "steps") ~> (rpc \in {"report", "except"})

\* a nested pass ended by raise after the four attempts of one of its SQL
\* steps, and the root pass ended with it
C39_Witness ==
    /\ rpc = "except"
    /\ stack = << >>
    /\ tries = retries + 1
    /\ waits = <<5, 10, 20>>
    /\ exc # << >>
    /\ exc[1].failed_step > 10

====
